---------------------------- MODULE Spec2Model ----------------------------
(***************************************************************************)
(* State-machine model of the think-swapper trading bots.                  *)
(*                                                                         *)
(* The repository holds several near-duplicate bot programs.  Each one is  *)
(* modelled as its own specification over the shared variables below:      *)
(*                                                                         *)
(*   SpecLedger  the cost-basis (DCA) bot           src/unnamed/part_009   *)
(*   SpecFlip    the flip bot with balance polling  src/unnamed/part_000   *)
(*   SpecGas     the flip bot with gas top-up       src/unnamed/part_001   *)
(*   SpecHybrid  the arbitrage / strategy bot  src/frontend/hybrid-bot.js  *)
(*   SpecLoop    the timer that starts the ticks    src/unnamed/part_009   *)
(*   Spec        any one of the four bots                                  *)
(*                                                                         *)
(* Every await of the source is one atomic step of the model: the provider *)
(* answers (quote, balances, submission, confirmation) are chosen by the   *)
(* environment with \E, the synchronous code that follows the await up to  *)
(* the next await is part of the same step.                                *)
(*                                                                         *)
(* Amounts are integers.  Stable-coin amounts (usd, proceeds, cost basis)  *)
(* are counted in the resolution of the comparison tolerances of the bot   *)
(* (1e-9 USD for the cost-basis bot, 1e-6 USD for the flip bots, 1e-3 USD  *)
(* for the hybrid bot); asset quantities are counted in whole units.       *)
(***************************************************************************)
EXTENDS Integers, Sequences, FiniteSets, TLC

VARIABLES
    bot,        \* which program is running
    DRY_RUN,    \* the DRY_RUN flag of the environment
    ARB_PATH,   \* the ARB_PATH setting of the environment, split at '-'
    pc,         \* position of the running tick ("idle" between ticks)
    loc,        \* the local variables of the running tick
    State,      \* STATE, the in-memory position ledger: symbol -> {units, cost_usdt}
    disk,       \* the persisted ledger (.bot_state.json)
    chain,      \* on-chain balances of the wallet: symbol -> quantity
    nTicks,     \* number of runOnce invocations started so far
    outcome,    \* how the last trade action of the tick ended
    ev          \* instrumentation: counters of calls made so far

vars == <<bot, DRY_RUN, ARB_PATH, pc, loc, State, disk, chain, nTicks, outcome, ev>>

(***************************************************************************)
(* Bounds of the model.                                                    *)
(***************************************************************************)
MaxTicks == 3          \* runOnce invocations explored
InitStableBuys == 2    \* the wallet starts with this many buys' worth of stable
MaxAwait == 2          \* longest time an awaited call takes, in minutes

(***************************************************************************)
(* Program constants.                                                      *)
(***************************************************************************)
MIN_PROFIT_BPS == 50
PROFIT_BUFFER_BPS == 50
SLIPPAGE_BPS == 50
EPS9 == 1              \* 1e-9 USD, in units of 1e-9 USD
UsdPerBuy == 200       \* toDollars(USD_CENTS), in units of 1e-9 USD

Symbols == {"GALA", "GWETH"}
Tokens == {"GALA", "GWETH", "GUSDT", "GUSDC"}

\* the default ARB_PATH (USDC-GALA-WETH-USDC), and a path that is not closed
ClosedPath == <<"GUSDC", "GALA", "GWETH", "GUSDC">>
OpenPath == <<"GUSDC", "GALA", "GWETH", "GALA">>

(***************************************************************************)
(* The environment's answers.                                              *)
(***************************************************************************)
NoQuote == 0                       \* quoteExactIn returned null
BuyOuts == {1, 2}                  \* units quoted for one buy

\* proceeds quoted for selling a position of cost c: around the sell threshold
SellOuts(c) == {c, c + (c \div 100) - 1, c + (c \div 100), c + (c \div 100) + 1}

NoLoc == [sym |-> "", qty |-> 0, tUnits |-> 0, tCost |-> 0, out |-> 0, buyKey |-> ""]
NoOutcome == [kind |-> "", sym |-> "", how |-> "none", via |-> ""]
OutcomeVia(kind, sym, how, via) == [kind |-> kind, sym |-> sym, how |-> how, via |-> via]
Outcome(kind, sym, how) == OutcomeVia(kind, sym, how, "")
NoGate == [qty |-> 0, units |-> 0, cost |-> 0, out |-> 0, allowed |-> FALSE]
ZeroPos == [units |-> 0, cost_usdt |-> 0]
ZeroLedger == [s \in Symbols |-> ZeroPos]

\* Instrumentation of the ledger bot.  swaps (calls of swap), minOut (the minOut
\* computed, over 10000), cleared, recorded and gate describe the trade action
\* (one call of trySellIfProfitable or buyOneDollar) that ran last; bought sums what
\* was handed to addPurchase since the symbol's last clear, settled the notional
\* of the buys that went through on chain since then.
NoEv == [swaps |-> 0, minOut |-> <<>>, cleared |-> <<>>, recorded |-> <<>>,
         gate |-> NoGate, bought |-> ZeroLedger, settled |-> [s \in Symbols |-> 0]]
EnterAction(e) == [e EXCEPT !.swaps = 0, !.minOut = <<>>, !.cleared = <<>>,
                            !.recorded = <<>>, !.gate = NoGate]

(***************************************************************************)
(* Pure helpers of the ledger bot.                                         *)
(***************************************************************************)
\* bpsMulStr(x, bps) = x * (10000 - bps) / 10000, kept as the numerator over 10000
bpsMulStr(x, bps) == x * (10000 - bps)

addPurchase_Overwrite(S, symbol, units, costUsd) ==
    [S EXCEPT ![symbol] = [units |-> units, cost_usdt |-> costUsd]]

addPurchase(S, symbol, units, costUsd) ==
    [S EXCEPT ![symbol] = [units |-> S[symbol].units + units,
                           cost_usdt |-> S[symbol].cost_usdt + costUsd]]

clearPosition_UnitsOnly(S, symbol) ==
    [S EXCEPT ![symbol] = [units |-> 0, cost_usdt |-> S[symbol].cost_usdt]]

\* The variant that resets the whole ledger.
clearPosition_All(S, symbol) == [s \in DOMAIN S |-> [units |-> 0, cost_usdt |-> 0]]

clearPosition(S, symbol) ==
    [S EXCEPT ![symbol] = [units |-> 0, cost_usdt |-> 0]]

\* trySellIfProfitable, first guard: something on chain and something tracked
SellTracked(qtyOnChain, trackedUnits, trackedCost) ==
    qtyOnChain > 0 /\ trackedUnits > 0 /\ trackedCost > 0

\* trySellIfProfitable, second guard.  The sell is skipped when
\*   usdtOut + 1e-9 < trackedCost * (1 + totalBps / 10000);
\* both sides are multiplied by 10000.  eps is 1e-9 USD in the unit of the
\* amounts (0 when the amounts are whole cents: for integers x and y,
\* x + 0.001 < y exactly when x < y).
SellBelowThreshold_Inclusive(usdtOut, trackedCost, totalBps, eps) ==
    (usdtOut + eps) * 10000 <= trackedCost * (10000 + totalBps)

SellBelowThreshold(usdtOut, trackedCost, totalBps, eps) ==
    (usdtOut + eps) * 10000 < trackedCost * (10000 + totalBps)

\* the whole gate of trySellIfProfitable
SellGateAllows(qtyOnChain, trackedUnits, trackedCost, usdtOut, totalBps, eps) ==
    /\ SellTracked(qtyOnChain, trackedUnits, trackedCost)
    /\ usdtOut > 0
    /\ ~SellBelowThreshold(usdtOut, trackedCost, totalBps, eps)

\* getBalancesMap: the balances of the wallet, or {} after repeated errors
BalanceAnswers == {chain, [t \in Tokens |-> 0]}

(***************************************************************************)
(* SpecLedger: the cost-basis bot (src/unnamed/part_009, second program).  *)
(* runOnce = trySellIfProfitable('GALA'); trySellIfProfitable('GWETH');    *)
(* buyOneDollar().  The invocations of runOnce are taken one at a time     *)
(* here; how the timer starts them is the subject of SpecLoop.             *)
(***************************************************************************)
InitLedger ==
    /\ bot = "ledger"
    /\ ARB_PATH = ClosedPath
    /\ DRY_RUN \in BOOLEAN
    /\ pc = "idle"
    /\ loc = NoLoc
    /\ State = ZeroLedger
    /\ disk = ZeroLedger
    /\ chain = [t \in Tokens |-> IF t = "GUSDT" THEN InitStableBuys * UsdPerBuy ELSE 0]
    /\ nTicks = 0
    /\ outcome = NoOutcome
    /\ ev = NoEv

\* saveState(s): writes the ledger to the file; a write error is swallowed
saveState(s) == disk' = s \/ disk' = disk

\* the stage that follows the sell of symbol s
AfterSell(s) == IF s = "GALA" THEN "sellBal" ELSE "buyBal"
NextSym(s) == IF s = "GALA" THEN "GWETH" ELSE ""

\* trySellIfProfitable(sym) returns: runOnce goes on with the next stage
SellReturns(how) ==
    /\ pc' = AfterSell(loc.sym)
    /\ loc' = [NoLoc EXCEPT !.sym = NextSym(loc.sym)]
    /\ outcome' = Outcome("sell", loc.sym, how)

\* buyOneDollar returns: runOnce is over
BuyReturns(how) ==
    /\ pc' = "idle"
    /\ loc' = NoLoc
    /\ outcome' = Outcome("buy", loc.buyKey, how)

\* main / setInterval: the next runOnce starts
Ledger_runOnce ==
    /\ bot = "ledger" /\ pc = "idle" /\ nTicks < MaxTicks
    /\ nTicks' = nTicks + 1
    /\ pc' = "sellBal"
    /\ loc' = [NoLoc EXCEPT !.sym = "GALA"]
    /\ outcome' = NoOutcome
    /\ UNCHANGED <<bot, DRY_RUN, ARB_PATH, State, disk, chain, ev>>

\* trySellIfProfitable: await getBalancesMap(), then the tracked position is read
Ledger_SellBalances ==
    /\ bot = "ledger" /\ pc = "sellBal"
    /\ ev' = EnterAction(ev)
    /\ \E balances \in BalanceAnswers :
         LET qtyOnChain == balances[loc.sym]
             trackedUnits == State[loc.sym].units
             trackedCost == State[loc.sym].cost_usdt
         IN  IF ~SellTracked(qtyOnChain, trackedUnits, trackedCost)
             THEN SellReturns("skip")
             ELSE /\ pc' = "sellQuote"
                  /\ loc' = [loc EXCEPT !.qty = qtyOnChain, !.tUnits = trackedUnits,
                                        !.tCost = trackedCost]
                  /\ outcome' = NoOutcome
    /\ UNCHANGED <<bot, DRY_RUN, ARB_PATH, State, disk, chain, nTicks>>

\* what the gate decided, for the record
GateRecord(usdtOut, allowed) ==
    [qty |-> loc.qty, units |-> loc.tUnits, cost |-> loc.tCost, out |-> usdtOut,
     allowed |-> allowed]

\* trySellIfProfitable: await quoteExactIn(IN, GUSDT, qtyOnChain), the threshold
\* test, and the DRY_RUN branch
Ledger_SellQuote(usdtOut) ==
    /\ bot = "ledger" /\ pc = "sellQuote"
    /\ IF usdtOut = NoQuote
       THEN SellReturns("quoteFail") /\ UNCHANGED <<State, disk, ev>>
       ELSE IF SellBelowThreshold(usdtOut, loc.tCost,
                                  MIN_PROFIT_BPS + PROFIT_BUFFER_BPS, EPS9)
       THEN /\ SellReturns("denied")
            /\ ev' = [ev EXCEPT !.gate = GateRecord(usdtOut, FALSE)]
            /\ UNCHANGED <<State, disk>>
       ELSE IF DRY_RUN
       THEN /\ State' = clearPosition(State, loc.sym)
            /\ saveState(State')
            /\ ev' = [ev EXCEPT !.gate = GateRecord(usdtOut, TRUE),
                                !.minOut = <<bpsMulStr(usdtOut, SLIPPAGE_BPS)>>,
                                !.cleared = Append(@, loc.sym),
                                !.bought[loc.sym] = ZeroPos,
                                !.settled[loc.sym] = 0]
            /\ SellReturns("simulated")
       ELSE /\ pc' = "sellSock"
            /\ loc' = [loc EXCEPT !.out = usdtOut]
            /\ outcome' = NoOutcome
            /\ ev' = [ev EXCEPT !.gate = GateRecord(usdtOut, TRUE),
                                !.minOut = <<bpsMulStr(usdtOut, SLIPPAGE_BPS)>>]
            /\ UNCHANGED <<State, disk>>
    /\ UNCHANGED <<bot, DRY_RUN, ARB_PATH, chain, nTicks>>

\* trySellIfProfitable: await ensureSocket(); a throw is caught by the try
Ledger_SellSocket ==
    /\ bot = "ledger" /\ pc = "sellSock"
    /\ \/ pc' = "sellSwap" /\ UNCHANGED <<loc, outcome>>
       \/ SellReturns("socketErr")
    /\ UNCHANGED <<bot, DRY_RUN, ARB_PATH, State, disk, chain, nTicks, ev>>

\* trySellIfProfitable: await gswap.swaps.swap(IN, GUSDT, feeTier, {exactIn, minOut})
Ledger_SellSwap ==
    /\ bot = "ledger" /\ pc = "sellSwap"
    /\ ev' = [ev EXCEPT !.swaps = @ + 1]
    /\ \/ pc' = "sellWait" /\ UNCHANGED <<loc, outcome>>
       \/ SellReturns("submitErr")
    /\ UNCHANGED <<bot, DRY_RUN, ARB_PATH, State, disk, chain, nTicks>>

\* the sell of loc.qty units for loc.out settles on chain
SellSettles ==
    chain' = [chain EXCEPT ![loc.sym] = @ - loc.qty, !["GUSDT"] = @ + loc.out]

\* trySellIfProfitable: await pending.wait(); on success clearPosition, saveState.
\* ok: wait() resolved; settled: the sell went through on chain.
Ledger_SellWait(ok, settled) ==
    /\ bot = "ledger" /\ pc = "sellWait"
    /\ ok => settled
    /\ IF settled THEN SellSettles ELSE UNCHANGED chain
    /\ IF ok
       THEN /\ State' = clearPosition(State, loc.sym)
            /\ saveState(State')
            /\ ev' = [ev EXCEPT !.cleared = Append(@, loc.sym),
                                !.bought[loc.sym] = ZeroPos,
                                !.settled[loc.sym] = 0]
            /\ SellReturns("confirmed")
       ELSE /\ SellReturns("waitErr")
            /\ UNCHANGED <<State, disk, ev>>
    /\ UNCHANGED <<bot, DRY_RUN, ARB_PATH, nTicks>>

\* buyOneDollar: await getBalancesMap(), the funds test, nextBuyTokenKey()
Ledger_BuyBalances ==
    /\ bot = "ledger" /\ pc = "buyBal"
    /\ ev' = EnterAction(ev)
    /\ \E balances \in BalanceAnswers, buyKey \in Symbols :
         LET gusdtBal == balances["GUSDT"]
         IN  /\ loc' = [NoLoc EXCEPT !.buyKey = buyKey]
             /\ IF gusdtBal + EPS9 < UsdPerBuy
                THEN pc' = "idle" /\ outcome' = Outcome("buy", "", "skip")
                ELSE pc' = "buyQuote" /\ outcome' = NoOutcome
    /\ UNCHANGED <<bot, DRY_RUN, ARB_PATH, State, disk, chain, nTicks>>

\* the minOut computed from a quote, for the record
WithMinOut(e, out, bps) == [e EXCEPT !.minOut = <<bpsMulStr(out, bps)>>]

\* what addPurchase was handed, for the record
Recorded(e, symbol, units, costUsd) ==
    [e EXCEPT !.recorded = Append(@, <<symbol, units, costUsd>>),
              !.bought[symbol] = [units |-> @.units + units,
                                  cost_usdt |-> @.cost_usdt + costUsd]]

\* buyOneDollar: await quoteExactIn(GUSDT, OUT, usd), and the DRY_RUN branch
Ledger_BuyQuote(outUnits) ==
    /\ bot = "ledger" /\ pc = "buyQuote"
    /\ IF outUnits = NoQuote
       THEN BuyReturns("quoteFail") /\ UNCHANGED <<State, disk, ev>>
       ELSE IF DRY_RUN
       THEN /\ State' = addPurchase(State, loc.buyKey, outUnits, UsdPerBuy)
            /\ saveState(State')
            /\ ev' = Recorded(WithMinOut(ev, outUnits, SLIPPAGE_BPS),
                              loc.buyKey, outUnits, UsdPerBuy)
            /\ BuyReturns("simulated")
       ELSE /\ pc' = "buySock"
            /\ loc' = [loc EXCEPT !.out = outUnits]
            /\ outcome' = NoOutcome
            /\ ev' = WithMinOut(ev, outUnits, SLIPPAGE_BPS)
            /\ UNCHANGED <<State, disk>>
    /\ UNCHANGED <<bot, DRY_RUN, ARB_PATH, chain, nTicks>>

\* buyOneDollar: await ensureSocket()
Ledger_BuySocket ==
    /\ bot = "ledger" /\ pc = "buySock"
    /\ \/ pc' = "buySwap" /\ UNCHANGED <<loc, outcome>>
       \/ BuyReturns("socketErr")
    /\ UNCHANGED <<bot, DRY_RUN, ARB_PATH, State, disk, chain, nTicks, ev>>

\* buyOneDollar: await gswap.swaps.swap(GUSDT, OUT, feeTier, {exactIn: usd, minOut})
Ledger_BuySwap ==
    /\ bot = "ledger" /\ pc = "buySwap"
    /\ ev' = [ev EXCEPT !.swaps = @ + 1]
    /\ \/ pc' = "buyWait" /\ UNCHANGED <<loc, outcome>>
       \/ BuyReturns("submitErr")
    /\ UNCHANGED <<bot, DRY_RUN, ARB_PATH, State, disk, chain, nTicks>>

\* the buy of loc.out units for usd settles on chain
BuySettles ==
    chain' = [chain EXCEPT ![loc.buyKey] = @ + loc.out, !["GUSDT"] = @ - UsdPerBuy]

\* a buy that went through on chain, for the record
SettledBuy(e, settled) ==
    IF settled THEN [e EXCEPT !.settled[loc.buyKey] = @ + UsdPerBuy] ELSE e

\* buyOneDollar: await pending.wait(); on success addPurchase, saveState
Ledger_BuyWait_RecordsOnFailure(ok, settled) ==
    /\ bot = "ledger" /\ pc = "buyWait"
    /\ ok => settled
    /\ IF settled THEN BuySettles ELSE UNCHANGED chain
    /\ State' = addPurchase(State, loc.buyKey, loc.out, UsdPerBuy)
    /\ saveState(State')
    /\ ev' = Recorded(SettledBuy(ev, settled), loc.buyKey, loc.out, UsdPerBuy)
    /\ BuyReturns(IF ok THEN "confirmed" ELSE "waitErr")
    /\ UNCHANGED <<bot, DRY_RUN, ARB_PATH, nTicks>>

Ledger_BuyWait(ok, settled) ==
    /\ bot = "ledger" /\ pc = "buyWait"
    /\ ok => settled
    /\ IF settled THEN BuySettles ELSE UNCHANGED chain
    /\ IF ok
       THEN /\ State' = addPurchase(State, loc.buyKey, loc.out, UsdPerBuy)
            /\ saveState(State')
            /\ ev' = Recorded(SettledBuy(ev, settled), loc.buyKey, loc.out, UsdPerBuy)
            /\ BuyReturns("confirmed")
       ELSE /\ BuyReturns("waitErr")
            /\ ev' = SettledBuy(ev, settled)
            /\ UNCHANGED <<State, disk>>
    /\ UNCHANGED <<bot, DRY_RUN, ARB_PATH, nTicks>>

NextLedger ==
    \/ Ledger_runOnce
    \/ Ledger_SellBalances
    \/ bot = "ledger" /\ \E usdtOut \in {NoQuote} \cup SellOuts(loc.tCost) :
                             Ledger_SellQuote(usdtOut)
    \/ Ledger_SellSocket
    \/ Ledger_SellSwap
    \/ \E ok \in BOOLEAN, settled \in BOOLEAN : Ledger_SellWait(ok, settled)
    \/ Ledger_BuyBalances
    \/ \E outUnits \in {NoQuote} \cup BuyOuts : Ledger_BuyQuote(outUnits)
    \/ Ledger_BuySocket
    \/ Ledger_BuySwap
    \/ \E ok \in BOOLEAN, settled \in BOOLEAN : Ledger_BuyWait(ok, settled)

SpecLedger == InitLedger /\ [][NextLedger]_vars

(***************************************************************************)
(* Properties of the ledger bot.                                           *)
(***************************************************************************)
\* the running or last trade action is a sell
InSell == pc \in {"sellQuote", "sellSock", "sellSwap", "sellWait"} \/ outcome.kind = "sell"
TotalBps == MIN_PROFIT_BPS + PROFIT_BUFFER_BPS
LedgerChanges == State' # State

SellRealized == outcome.kind = "sell" /\ ev.swaps = 1 /\ chain[outcome.sym] = 0

\* C5, second half: every realized full-quantity sell is followed by its clear
C5_RealizedSellIsCleared == SellRealized => ev.cleared = <<outcome.sym>>

\* C5: clearPosition is called exactly once per realized full-quantity sell and
\* never otherwise; each clear is preceded by a sell that was actually executed,
\* with DRY_RUN set as well.
C5_ClearOncePerRealizedSell ==
    /\ Len(ev.cleared) <= 1
    /\ ev.cleared # <<>> => SellRealized
    /\ C5_RealizedSellIsCleared

\* C6 as stated: a sell is allowed only if units, cost and on-chain quantity are
\* positive and the quoted proceeds are at least cost * (1 + totalBps / 10000).
C6_GateExactThreshold ==
    ev.gate.allowed =>
        /\ ev.gate.units > 0 /\ ev.gate.cost > 0 /\ ev.gate.qty > 0
        /\ ev.gate.out * 10000 >= ev.gate.cost * (10000 + TotalBps)

\* C6: a sell is allowed only if units, cost and on-chain quantity are positive
\* and the quoted proceeds plus 1e-9 are at least cost * (1 + totalBps / 10000);
\* below that the sell is denied, and a skipped or denied sell submits nothing.
\* With cost 10.00 and 10 + 10 bps, proceeds 10.01 are denied, 10.03 allowed.
C6_GateWithTolerance ==
    /\ ev.gate.allowed =>
          /\ ev.gate.units > 0 /\ ev.gate.cost > 0 /\ ev.gate.qty > 0
          /\ (ev.gate.out + EPS9) * 10000 >= ev.gate.cost * (10000 + TotalBps)
    /\ outcome = Outcome("sell", outcome.sym, "denied") =>
          /\ ~ev.gate.allowed
          /\ (ev.gate.out + EPS9) * 10000 < ev.gate.cost * (10000 + TotalBps)
    /\ InSell /\ ~ev.gate.allowed => ev.swaps = 0 /\ ev.cleared = <<>>
    /\ pc \in {"sellSock", "sellSwap", "sellWait"} => ev.gate.allowed
    /\ ~SellGateAllows(1, 1, 1000, 1001, 20, 0)
    /\ SellGateAllows(1, 1, 1000, 1003, 20, 0)

\* a sell passed the gate and was submitted
C6_Witness == ev.gate.allowed /\ ev.swaps = 1 /\ pc = "sellWait"

\* C7: recordBuy adds units and cost to the position: at every moment the
\* position of a symbol is the sum of what was recorded for it since its last
\* clear; (10, 5) recorded twice on an empty position gives 20 and 10.
C7_PositionIsSumOfRecordedBuys ==
    /\ \A s \in Symbols : State[s] = ev.bought[s]
    /\ addPurchase(addPurchase(ZeroLedger, "GALA", 10, 5), "GALA", 10, 5)["GALA"]
         = [units |-> 20, cost_usdt |-> 10]

\* two buys of the same symbol have been recorded with no clear between them
C7_Witness == \E s \in Symbols : State[s].cost_usdt = 2 * UsdPerBuy /\ ev.recorded # <<>>

\* C8: units and cost of every position are non-negative, and units are zero
\* exactly when cost is zero.
C8_PositionInvariant ==
    \A s \in Symbols :
        /\ State[s].units >= 0
        /\ State[s].cost_usdt >= 0
        /\ State[s].units = 0 <=> State[s].cost_usdt = 0

\* a position was cleared while the other symbol is held
C8_Witness ==
    /\ ev.cleared # <<>>
    /\ \E s \in Symbols : State[s].units > 0 /\ State[s].cost_usdt > 0

(***************************************************************************)
(* SpecFlip: the bot with balance-based confirmation                       *)
(* (src/unnamed/part_000).  main calls runOnce once.  Stable amounts are   *)
(* counted in units of 1e-6 USD.                                           *)
(***************************************************************************)
Flip_usd == 10000              \* toDollars(USD_CENTS), with BOT_USD_CENTS=1
Flip_SLIPPAGE_BPS == 200
Flip_MIN_PROFIT_BPS == 10
Flip_EPS6 == 1                 \* 1e-6
Flip_EPS3 == 1000              \* 1e-3
Flip_PollCap == 6              \* for (let i = 0; i < 6; i++)

FlipNoLoc == [sym |-> "", qty |-> 0, out |-> 0, buyKey |-> "", stable |-> "",
              before |-> [t \in Tokens |-> 0], i |-> 0, pending |-> FALSE]
\* Instrumentation of the running or last trade action: the submissions made, and
\* for a buy its notional, stable and bought symbols, the balances read up front
\* and the balances read by each poll.
FlipNoEv == [swaps |-> 0, minOut |-> <<>>, usd |-> 0, stable |-> "", buyKey |-> "",
             before |-> [t \in Tokens |-> 0], polled |-> <<>>]

\* getBalancesMap: the wallet's balances, or an empty map when every attempt failed
NoBalances == [has |-> FALSE, q |-> [t \in Tokens |-> 0]]
Flip_getBalancesMap(c) == {[has |-> TRUE, q |-> c], NoBalances}

\* resolveStableFromBalances(b).sym; "" stands for null
resolveStableFromBalances(b) ==
    IF b.q["GUSDT"] > 0 THEN "GUSDT"
    ELSE IF b.q["GUSDC"] > 0 THEN "GUSDC"
    ELSE IF b.has THEN "GUSDT"
    ELSE ""

\* gainBps(inUSDC, outUSDC) < minBps, for inUSDC >= 1e-6:
\*   (out - in) / in * 10000 < minBps
GainBelow(inUSDC, outUSDC, minBps) == (outUSDC - inUSDC) * 10000 < minBps * inUSDC

\* The variant that confirms on either condition.
PollMatches_Either(beforeStable, beforeBought, afterStable, afterBought, usd) ==
    \/ afterStable + Flip_EPS6 <= beforeStable - usd + Flip_EPS3
    \/ afterBought > beforeBought

\* the fallback's test of one poll: the stable balance dropped by the notional
\* and the bought balance increased
PollMatches(beforeStable, beforeBought, afterStable, afterBought, usd) ==
    /\ afterStable + Flip_EPS6 <= beforeStable - usd + Flip_EPS3
    /\ afterBought > beforeBought

\* proceeds quoted for a sell: at cost, and at the profit filter
FlipSellOuts == {Flip_usd, Flip_usd + (Flip_usd * Flip_MIN_PROFIT_BPS) \div 10000}

InitFlip ==
    /\ bot = "flip"
    /\ ARB_PATH = ClosedPath
    /\ DRY_RUN \in BOOLEAN
    /\ pc = "idle"
    /\ loc = FlipNoLoc
    /\ State = ZeroLedger
    /\ disk = ZeroLedger
    /\ chain \in {[GALA |-> g, GWETH |-> w, GUSDT |-> t, GUSDC |-> c] :
                     g \in {0, 3}, w \in {0, 2}, t \in {0, Flip_usd}, c \in {0, Flip_usd}}
    /\ nTicks = 0
    /\ outcome = NoOutcome
    /\ ev = FlipNoEv

FlipSellReturns(how) ==
    /\ pc' = AfterSell(loc.sym)
    /\ loc' = [FlipNoLoc EXCEPT !.sym = NextSym(loc.sym)]
    /\ outcome' = Outcome("sell", loc.sym, how)

FlipBuyReturns(how, via) ==
    /\ pc' = "idle"
    /\ loc' = FlipNoLoc
    /\ outcome' = OutcomeVia("buy", loc.buyKey, how, via)

\* main: runOnce is called once
Flip_runOnce ==
    /\ bot = "flip" /\ pc = "idle" /\ nTicks = 0
    /\ nTicks' = 1
    /\ pc' = "sellBal"
    /\ loc' = [FlipNoLoc EXCEPT !.sym = "GALA"]
    /\ outcome' = NoOutcome
    /\ UNCHANGED <<bot, DRY_RUN, ARB_PATH, State, disk, chain, ev>>

\* trySellIfProfitable: await getBalancesMap()
Flip_SellBalances ==
    /\ bot = "flip" /\ pc = "sellBal"
    /\ ev' = FlipNoEv
    /\ \E balances \in Flip_getBalancesMap(chain) :
         LET qty == balances.q[loc.sym]
             stable == resolveStableFromBalances(balances)
         IN  IF ~(qty > 0)
             THEN FlipSellReturns("skip")
             ELSE /\ pc' = "sellQuote"
                  /\ loc' = [loc EXCEPT !.qty = qty,
                                        !.stable = IF stable = "" THEN "GUSDT" ELSE stable]
                  /\ outcome' = NoOutcome
    /\ UNCHANGED <<bot, DRY_RUN, ARB_PATH, State, disk, chain, nTicks>>

\* trySellIfProfitable: await safeQuoteExactIn, the profit filter, the DRY_RUN branch
Flip_SellQuote(usdcOut) ==
    /\ bot = "flip" /\ pc = "sellQuote"
    /\ IF usdcOut = NoQuote
       THEN FlipSellReturns("quoteFail") /\ UNCHANGED ev
       ELSE IF GainBelow(Flip_usd, usdcOut, Flip_MIN_PROFIT_BPS)
       THEN FlipSellReturns("denied") /\ UNCHANGED ev
       ELSE /\ ev' = WithMinOut(ev, usdcOut, Flip_SLIPPAGE_BPS)
            /\ IF DRY_RUN
               THEN FlipSellReturns("simulated")
               ELSE /\ pc' = "sellSock"
                    /\ loc' = [loc EXCEPT !.out = usdcOut]
                    /\ outcome' = NoOutcome
    /\ UNCHANGED <<bot, DRY_RUN, ARB_PATH, State, disk, chain, nTicks>>

\* trySellIfProfitable: await ensureSocket()
Flip_SellSocket ==
    /\ bot = "flip" /\ pc = "sellSock"
    /\ \/ pc' = "sellSwap" /\ UNCHANGED <<loc, outcome>>
       \/ FlipSellReturns("socketErr")
    /\ UNCHANGED <<bot, DRY_RUN, ARB_PATH, State, disk, chain, nTicks, ev>>

\* trySellIfProfitable: await gswap.swaps.swap(...)
Flip_SellSwap ==
    /\ bot = "flip" /\ pc = "sellSwap"
    /\ ev' = [ev EXCEPT !.swaps = @ + 1]
    /\ \/ pc' = "sellWait" /\ UNCHANGED <<loc, outcome>>
       \/ FlipSellReturns("submitErr")
    /\ UNCHANGED <<bot, DRY_RUN, ARB_PATH, State, disk, chain, nTicks>>

\* trySellIfProfitable: await pending.wait()
Flip_SellWait(ok, settled) ==
    /\ bot = "flip" /\ pc = "sellWait"
    /\ ok => settled
    /\ IF settled
       THEN chain' = [chain EXCEPT ![loc.sym] = @ - loc.qty, ![loc.stable] = @ + loc.out]
       ELSE UNCHANGED chain
    /\ FlipSellReturns(IF ok THEN "confirmed" ELSE "waitErr")
    /\ UNCHANGED <<bot, DRY_RUN, ARB_PATH, State, disk, nTicks, ev>>

\* buyOneDollar: balancesBefore = await getBalancesMap(), the stable and funds tests,
\* nextBuyTokenKey()
Flip_BuyBalances ==
    /\ bot = "flip" /\ pc = "buyBal"
    /\ \E balancesBefore \in Flip_getBalancesMap(chain), buyKey \in Symbols :
         LET stable == resolveStableFromBalances(balancesBefore)
         IN  IF stable = "" \/ balancesBefore.q[stable] < Flip_usd
             THEN /\ pc' = "idle"
                  /\ loc' = FlipNoLoc
                  /\ outcome' = Outcome("buy", "", "skip")
                  /\ ev' = FlipNoEv
             ELSE /\ pc' = "buyQuote"
                  /\ loc' = [FlipNoLoc EXCEPT !.buyKey = buyKey, !.stable = stable,
                                              !.before = balancesBefore.q]
                  /\ outcome' = NoOutcome
                  /\ ev' = [FlipNoEv EXCEPT !.before = balancesBefore.q,
                                                       !.usd = Flip_usd,
                                                       !.stable = stable,
                                                       !.buyKey = buyKey]
    /\ UNCHANGED <<bot, DRY_RUN, ARB_PATH, State, disk, chain, nTicks>>

\* buyOneDollar: await safeQuoteExactIn(stable, OUT, usd), and the DRY_RUN branch
Flip_BuyQuote(outUnits) ==
    /\ bot = "flip" /\ pc = "buyQuote"
    /\ IF outUnits = NoQuote
       THEN FlipBuyReturns("quoteFail", "") /\ UNCHANGED ev
       ELSE /\ ev' = WithMinOut(ev, outUnits, Flip_SLIPPAGE_BPS)
            /\ IF DRY_RUN
               THEN FlipBuyReturns("simulated", "")
               ELSE /\ pc' = "buySock"
                    /\ loc' = [loc EXCEPT !.out = outUnits]
                    /\ outcome' = NoOutcome
    /\ UNCHANGED <<bot, DRY_RUN, ARB_PATH, State, disk, chain, nTicks>>

\* buyOneDollar: await ensureSocket(); a throw goes to the outer catch
Flip_BuySocket ==
    /\ bot = "flip" /\ pc = "buySock"
    /\ \/ pc' = "buySwap" /\ UNCHANGED <<loc, outcome>>
       \/ FlipBuyReturns("socketErr", "")
    /\ UNCHANGED <<bot, DRY_RUN, ARB_PATH, State, disk, chain, nTicks, ev>>

\* buyOneDollar: pending = await gswap.swaps.swap(...); on submitErr, return.
\* A resubmitting variant goes back to the submission instead.
Flip_BuySwap_Resubmits ==
    /\ bot = "flip" /\ pc = "buySwap"
    /\ ev' = [ev EXCEPT !.swaps = @ + 1]
    /\ \/ pc' = "buyWait" /\ loc' = [loc EXCEPT !.pending = TRUE] /\ UNCHANGED outcome
       \/ pc' = "buySwap" /\ UNCHANGED <<loc, outcome>>
    /\ UNCHANGED <<bot, DRY_RUN, ARB_PATH, State, disk, chain, nTicks>>

Flip_BuySwap ==
    /\ bot = "flip" /\ pc = "buySwap"
    /\ ev' = [ev EXCEPT !.swaps = @ + 1]
    /\ \/ pc' = "buyWait" /\ loc' = [loc EXCEPT !.pending = TRUE] /\ UNCHANGED outcome
       \/ FlipBuyReturns("submitErr", "")
    /\ UNCHANGED <<bot, DRY_RUN, ARB_PATH, State, disk, chain, nTicks>>

\* the chain after the pending buy settled
FlipBuySettled(c) == [c EXCEPT ![loc.buyKey] = @ + loc.out, ![loc.stable] = @ - Flip_usd]

\* The variant that reads the baseline when the wait has failed.
Flip_BuyWait_SnapshotAtFailure(ok, settled) ==
    /\ bot = "flip" /\ pc = "buyWait"
    /\ ok => settled
    /\ chain' = IF settled THEN FlipBuySettled(chain) ELSE chain
    /\ IF ok
       THEN FlipBuyReturns("confirmed", "wait")
       ELSE /\ pc' = "buyPoll"
            /\ loc' = [loc EXCEPT !.pending = ~settled, !.i = 0, !.before = chain']
            /\ outcome' = NoOutcome
    /\ UNCHANGED <<bot, DRY_RUN, ARB_PATH, State, disk, nTicks, ev>>

\* buyOneDollar: await pending.wait().  ok: wait() resolved; settled: the buy
\* went through on chain by now.
Flip_BuyWait(ok, settled) ==
    /\ bot = "flip" /\ pc = "buyWait"
    /\ ok => settled
    /\ chain' = IF settled THEN FlipBuySettled(chain) ELSE chain
    /\ IF ok
       THEN FlipBuyReturns("confirmed", "wait")
       ELSE /\ pc' = "buyPoll"
            /\ loc' = [loc EXCEPT !.pending = ~settled, !.i = 0]
            /\ outcome' = NoOutcome
    /\ UNCHANGED <<bot, DRY_RUN, ARB_PATH, State, disk, nTicks, ev>>

\* one poll's answer, for the record
Polled(e, after) == [e EXCEPT !.polled = Append(@, after)]

\* the fallback loop, one iteration: await sleep(5000); after = await getBalancesMap();
\* return on a match, else i++ and, at the cap, the unconfirmed message.
\* settles: the pending buy goes through on chain before the balances are read.
Flip_BuyPoll_KeepsPolling(settles) ==
    /\ bot = "flip" /\ pc = "buyPoll"
    /\ settles => loc.pending
    /\ chain' = IF settles THEN FlipBuySettled(chain) ELSE chain
    /\ \E after \in Flip_getBalancesMap(chain') :
         /\ ev' = Polled(ev, after.q)
         /\ IF loc.i + 1 < Flip_PollCap
            THEN /\ pc' = "buyPoll"
                 /\ loc' = [loc EXCEPT !.i = @ + 1, !.pending = @ /\ ~settles]
                 /\ outcome' = NoOutcome
            ELSE IF PollMatches(loc.before[loc.stable], loc.before[loc.buyKey],
                                after.q[loc.stable], after.q[loc.buyKey], Flip_usd)
            THEN FlipBuyReturns("confirmed", "balance-poll")
            ELSE FlipBuyReturns("unconfirmed", "")
    /\ UNCHANGED <<bot, DRY_RUN, ARB_PATH, State, disk, nTicks>>

Flip_BuyPoll(settles) ==
    /\ bot = "flip" /\ pc = "buyPoll"
    /\ settles => loc.pending
    /\ chain' = IF settles THEN FlipBuySettled(chain) ELSE chain
    /\ \E after \in Flip_getBalancesMap(chain') :
         /\ ev' = Polled(ev, after.q)
         /\ IF PollMatches(loc.before[loc.stable], loc.before[loc.buyKey],
                           after.q[loc.stable], after.q[loc.buyKey], Flip_usd)
            THEN FlipBuyReturns("confirmed", "balance-poll")
            ELSE IF loc.i + 1 < Flip_PollCap
            THEN /\ pc' = "buyPoll"
                 /\ loc' = [loc EXCEPT !.i = @ + 1, !.pending = @ /\ ~settles]
                 /\ outcome' = NoOutcome
            ELSE FlipBuyReturns("unconfirmed", "")
    /\ UNCHANGED <<bot, DRY_RUN, ARB_PATH, State, disk, nTicks>>

NextFlip ==
    \/ Flip_runOnce
    \/ Flip_SellBalances
    \/ \E usdcOut \in {NoQuote} \cup FlipSellOuts : Flip_SellQuote(usdcOut)
    \/ Flip_SellSocket
    \/ Flip_SellSwap
    \/ \E ok \in BOOLEAN, settled \in BOOLEAN : Flip_SellWait(ok, settled)
    \/ Flip_BuyBalances
    \/ \E outUnits \in {NoQuote} \cup BuyOuts : Flip_BuyQuote(outUnits)
    \/ Flip_BuySocket
    \/ Flip_BuySwap
    \/ \E ok \in BOOLEAN, settled \in BOOLEAN : Flip_BuyWait(ok, settled)
    \/ \E settles \in BOOLEAN : Flip_BuyPoll(settles)

SpecFlip == InitFlip /\ [][NextFlip]_vars

\* every awaited call of the running tick returns
SpecFlipLive == SpecFlip /\ WF_vars(NextFlip)

(***************************************************************************)
(* Properties of the bot with balance-based confirmation.                  *)
(***************************************************************************)
\* C2: a trade intent is submitted at most once: no trade action calls swap a
\* second time, and a submit error, a failed wait and an unconfirmed outcome
\* are each reached with exactly one submission made.
C2_SubmittedAtMostOnce ==
    /\ ev.swaps <= 1
    /\ pc \in {"sellWait", "buyWait", "buyPoll"} => ev.swaps = 1
    /\ outcome.how \in {"submitErr", "waitErr", "unconfirmed"} => ev.swaps = 1
    /\ outcome.how = "confirmed" => ev.swaps = 1

\* the fallback window ran out after a single submission
C2_Witness == outcome = Outcome("buy", outcome.sym, "unconfirmed") /\ ev.swaps = 1

\* poll k of the last buy shows the trade: stable down by the notional within the
\* tolerances, bought balance up
C3_Match(k) ==
    /\ ev.polled[k][ev.stable] + Flip_EPS6 <= ev.before[ev.stable] - ev.usd + Flip_EPS3
    /\ ev.polled[k][ev.buyKey] > ev.before[ev.buyKey]

C3_Polls == 1..Len(ev.polled)

C3_Outcomes ==
    /\ Len(ev.polled) <= 6
    /\ pc = "buyPoll" => \A k \in C3_Polls : ~C3_Match(k)
    /\ pc \in {"buyQuote", "buySock", "buySwap", "buyWait"} => ev.polled = <<>>
    /\ outcome.kind = "buy" /\ outcome.how = "confirmed" =>
          \/ outcome.via = "wait" /\ ev.polled = <<>>
          \/ /\ outcome.via = "balance-poll"
             /\ ev.polled # <<>>
             /\ \A k \in C3_Polls : C3_Match(k) <=> k = Len(ev.polled)
    /\ outcome.kind = "buy" /\ outcome.how = "unconfirmed" =>
          /\ Len(ev.polled) = 6
          /\ \A k \in C3_Polls : ~C3_Match(k)

\* C3: after a failed wait the balances are polled at most 6 times; the first
\* matching poll ends the polling with a confirmation by balance poll; 6 polls
\* without a match end unconfirmed; a successful wait confirms with no poll;
\* and a buy whose wait failed always ends in one of the two ways.
C3_WaitThenCappedPolling ==
    /\ []C3_Outcomes
    /\ pc = "buyPoll" ~>
          /\ outcome.kind = "buy"
          /\ \/ outcome.how = "confirmed" /\ outcome.via = "balance-poll"
             \/ outcome.how = "unconfirmed"

\* confirmed by the third poll
C3_Witness ==
    /\ outcome = OutcomeVia("buy", outcome.sym, "confirmed", "balance-poll")
    /\ Len(ev.polled) = 3

(***************************************************************************)
(* SpecHybrid: the hybrid bot (src/frontend/hybrid-bot.js), loop mode.     *)
(* tick = spot price and EMA state, triangular arbitrage, else one         *)
(* randomly picked strategy.  USDC amounts are counted in units of         *)
(* 1e-3 USDC; only the USDC balance of the wallet is followed, the one     *)
(* balance the tick reads.  The invocations of tick are taken one at a     *)
(* time here.                                                              *)
(***************************************************************************)
ARB_START_USD == 3000          \* 3 USDC
ARB_MIN_PROFIT_BPS == 30
BASE_TRADE_USD == 2000         \* 2 USDC
MAX_TRADE_USD == 25000         \* 25 USDC
Hyb_SLIPPAGE_BPS == 50
EMA_ALPHA_INV == 5             \* EMA_ALPHA = 0.2 = 1/5
MOMENTUM_TH == 4               \* 0.004, in thousandths
MEANREV_TH == 6                \* 0.006, in thousandths
FIB_LOOKBACK == 96
PRICES_KEPT == 400             \* Math.max(3*FIB_LOOKBACK, 400)
Strategies == {"MOMENTUM", "MEAN_REVERT", "FIBONACCI"}

RECURSIVE Pow(_, _)
Pow(b, n) == IF n = 0 THEN 1 ELSE b * Pow(b, n - 1)

\* state.ema is kept as a numerator over EmaScale, which makes MaxTicks updates exact
EmaScale == Pow(EMA_ALPHA_INV, MaxTicks)
NoEma == 0                     \* ema: null
QuoteThrows == 0 - 1           \* the awaited call rejected
ZeroOut == 0                   \* a quote whose outTokenAmount is 0

Min(a, b) == IF a < b THEN a ELSE b
Max(a, b) == IF a > b THEN a ELSE b
LastN(seq, n) == SubSeq(seq, Max(1, Len(seq) - n + 1), Len(seq))

\* bpsMul(x, bps) = x * (10000 - bps) / 10000, kept as the numerator over 10000
bpsMul(x, bps) == x * (10000 - bps)

\* The variant that gives the weight alpha to the previous value.
emaUpdate_WeightsSwapped(prev, p) ==
    IF prev = NoEma THEN p * EmaScale
    ELSE ((EMA_ALPHA_INV - 1) * p * EmaScale + prev) \div EMA_ALPHA_INV

\* emaUpdate(prev, p, alpha) = prev == null ? p : alpha*p + (1-alpha)*prev
emaUpdate(prev, p) ==
    IF prev = NoEma THEN p * EmaScale
    ELSE (p * EmaScale + (EMA_ALPHA_INV - 1) * prev) \div EMA_ALPHA_INV

\* The variant that drops the newest points when the series is full.
pushPrice_KeepsOldest(prices, price) ==
    SubSeq(Append(prices, price), 1,
           Min(Len(prices) + 1, Max(3 * FIB_LOOKBACK, PRICES_KEPT)))

\* pushPrice(state, price)
pushPrice(prices, price) == LastN(Append(prices, price), Max(3 * FIB_LOOKBACK, PRICES_KEPT))

\* dev = (price - ema) / ema compared with th / 1000
DevAbove(price, ema, th) == (price * EmaScale - ema) * 1000 > th * ema
DevBelow(price, ema, th) == (price * EmaScale - ema) * 1000 < (0 - th) * ema

\* The variant that trades against the deviation.
momentumSignal_Contrarian(price, ema) ==
    IF DevAbove(price, ema, MOMENTUM_TH) THEN "SELL"
    ELSE IF DevBelow(price, ema, MOMENTUM_TH) THEN "BUY"
    ELSE "NONE"

momentumSignal(price, ema) ==
    IF DevAbove(price, ema, MOMENTUM_TH) THEN "BUY"
    ELSE IF DevBelow(price, ema, MOMENTUM_TH) THEN "SELL"
    ELSE "NONE"

\* The variant that follows the deviation instead of fading it.
meanRevertSignal_Trend(price, ema) ==
    IF DevAbove(price, ema, MEANREV_TH) THEN "BUY"
    ELSE IF DevBelow(price, ema, MEANREV_TH) THEN "SELL"
    ELSE "NONE"

meanRevertSignal(price, ema) ==
    IF DevAbove(price, ema, MEANREV_TH) THEN "SELL"
    ELSE IF DevBelow(price, ema, MEANREV_TH) THEN "BUY"
    ELSE "NONE"

\* findSwing(prices, lookback): the first highest and the first lowest price of
\* the last lookback prices, with their positions; <<>> stands for null
SeqMax(arr) == CHOOSE v \in {arr[i] : i \in 1..Len(arr)} : \A i \in 1..Len(arr) : arr[i] <= v
SeqMin(arr) == CHOOSE v \in {arr[i] : i \in 1..Len(arr)} : \A i \in 1..Len(arr) : arr[i] >= v
FirstAt(arr, v) == CHOOSE i \in 1..Len(arr) : arr[i] = v /\ \A j \in 1..(i - 1) : arr[j] # v
\* The variant without the minimum of 5 points.
findSwing_AnyLength(prices, lookback) ==
    LET arr == LastN(prices, lookback)
    IN  <<[high |-> SeqMax(arr), highAt |-> FirstAt(arr, SeqMax(arr)),
           low |-> SeqMin(arr), lowAt |-> FirstAt(arr, SeqMin(arr))]>>

findSwing(prices, lookback) ==
    LET arr == LastN(prices, lookback)
    IN  IF Len(arr) < 5 THEN <<>>
        ELSE <<[high |-> SeqMax(arr), highAt |-> FirstAt(arr, SeqMax(arr)),
                low |-> SeqMin(arr), lowAt |-> FirstAt(arr, SeqMin(arr))]>>

\* fibLevels(low, high), each level times 1000
fibLevels(low, high) ==
    LET range == high - low
    IN  [l382 |-> high * 1000 - range * 382, l500 |-> high * 1000 - range * 500,
         l618 |-> high * 1000 - range * 618, r382 |-> low * 1000 + range * 382,
         r500 |-> low * 1000 + range * 500, r618 |-> low * 1000 + range * 618]

\* The variant that takes the uptrend from the swings alone.
fibonacciSignal_IgnoresEma(state, price) ==
    LET swings == findSwing(state.prices, FIB_LOOKBACK)
    IN  IF swings = <<>> THEN "NONE"
        ELSE LET sw == swings[1]
                 ema == IF state.ema = NoEma THEN price * EmaScale ELSE state.ema
                 up == sw.highAt > sw.lowAt
                 down == sw.lowAt > sw.highAt /\ price * EmaScale <= ema
                 lv == fibLevels(sw.low, sw.high)
                 p == price * 1000
             IN  IF up
                 THEN IF (p <= lv.l500 /\ p >= lv.l618) \/ (p <= lv.l382 /\ p >= lv.l500)
                      THEN "BUY" ELSE "NONE"
                 ELSE IF down
                 THEN IF (p >= lv.r500 /\ p <= lv.r618) \/ (p >= lv.r382 /\ p <= lv.r500)
                      THEN "SELL" ELSE "NONE"
                 ELSE "NONE"

fibonacciSignal(state, price) ==
    LET swings == findSwing(state.prices, FIB_LOOKBACK)
    IN  IF swings = <<>> THEN "NONE"
        ELSE LET sw == swings[1]
                 ema == IF state.ema = NoEma THEN price * EmaScale ELSE state.ema
                 up == sw.highAt > sw.lowAt /\ price * EmaScale >= ema
                 down == sw.lowAt > sw.highAt /\ price * EmaScale <= ema
                 lv == fibLevels(sw.low, sw.high)
                 p == price * 1000
             IN  IF up
                 THEN IF (p <= lv.l500 /\ p >= lv.l618) \/ (p <= lv.l382 /\ p >= lv.l500)
                      THEN "BUY" ELSE "NONE"
                 ELSE IF down
                 THEN IF (p >= lv.r500 /\ p <= lv.r618) \/ (p >= lv.r382 /\ p <= lv.r500)
                      THEN "SELL" ELSE "NONE"
                 ELSE "NONE"

\* the signal of the picked strategy: runMomentum, runMeanRevert, runFibonacci
StrategySignal(pick, state, price) ==
    CASE pick = "MOMENTUM" -> momentumSignal(price, state.ema)
      [] pick = "MEAN_REVERT" -> meanRevertSignal(price, state.ema)
      [] OTHER -> fibonacciSignal(state, price)

\* simulateTriangle: profitBps = (profit / startUsd) * 10000, rounded down to whole
\* basis points
profitBpsFloor(startUsd, finalOut) == ((finalOut - startUsd) * 10000) \div startUsd

\* The variant of the test that wants more than the minimum.
TriangleOk_Strict(startUsd, finalOut) ==
    (finalOut - startUsd) * 10000 > ARB_MIN_PROFIT_BPS * startUsd

\* simulateTriangle: ok = profitBps >= ARB_MIN_PROFIT_BPS
TriangleOk(startUsd, finalOut) ==
    (finalOut - startUsd) * 10000 >= ARB_MIN_PROFIT_BPS * startUsd

\* hybrid_state.json and the state object of a tick
NoHybState == [ema |-> NoEma, prices |-> <<>>]
HybNoLoc == [state |-> NoHybState, price |-> 0, leg |-> 0, sim |-> <<>>, usd |-> 0,
             sellPrice |-> 0, out |-> 0]
\* Instrumentation of the running or last tick: the calls of swap, the last
\* minOut computed, the stages entered and the stage whose await rejected, the
\* quotes simulateTriangle asked for (amount in, answer) and what it returned,
\* and the state handed to saveState.
HybNoEv == [swaps |-> 0, minOut |-> <<>>, stages |-> <<>>, failed |-> "",
            pick |-> "", signal |-> "", quotes |-> <<>>, sim |-> <<>>, saved |-> <<>>]

\* prices quoted for 1 GALA, and the quotes of the three hops and of the trades
HybPrices == {500, 504}
HopOuts(leg) == IF leg = 1 THEN {6000} ELSE IF leg = 2 THEN {2}
                ELSE {ARB_START_USD + 8, ARB_START_USD + 9, ARB_START_USD + 50}
HybBuyOuts == {4000}
HybSellOuts == {BASE_TRADE_USD}

InitHybrid ==
    /\ bot = "hybrid"
    /\ ARB_PATH \in {ClosedPath, OpenPath}
    /\ DRY_RUN \in BOOLEAN
    /\ pc = "idle"
    /\ loc = HybNoLoc
    /\ State = ZeroLedger
    /\ disk = NoHybState
    /\ chain \in {[t \in Tokens |-> IF t = "GUSDC" THEN u ELSE 0] :
                     u \in {0, ARB_START_USD - 200, 2 * ARB_START_USD}}
    /\ nTicks = 0
    /\ outcome = NoOutcome
    /\ ev = HybNoEv

\* tick returns normally
HybReturns(kind, how) ==
    /\ pc' = "idle"
    /\ loc' = HybNoLoc
    /\ outcome' = Outcome(kind, "", how)

\* an awaited call rejected: the catch of tick logs the error, the tick is over
Caught(stage, e) ==
    /\ pc' = "idle"
    /\ loc' = HybNoLoc
    /\ outcome' = Outcome(stage, "", "tickErr")
    /\ ev' = [e EXCEPT !.failed = stage]

TickCaught(stage) == Caught(stage, ev)

\* one more call of swap, for the record
Swapped(e) == [e EXCEPT !.swaps = @ + 1]

\* The variant of the strategy stage that trades against the signal.
GoStrategy_Inverted(e) ==
    \E pick \in Strategies :
        LET sig == StrategySignal(pick, loc.state, loc.price)
            usd == Min(MAX_TRADE_USD, BASE_TRADE_USD)
        IN  /\ ev' = [e EXCEPT !.stages = Append(@, "strategy"), !.pick = pick,
                                !.signal = sig]
            /\ IF sig = "SELL"
               THEN /\ pc' = "buyQuote"
                    /\ loc' = [HybNoLoc EXCEPT !.usd = usd]
                    /\ outcome' = NoOutcome
               ELSE IF sig = "BUY"
               THEN /\ pc' = "sellSpot"
                    /\ loc' = [HybNoLoc EXCEPT !.usd = usd]
                    /\ outcome' = NoOutcome
               ELSE HybReturns("strategy", "none")

\* tick, stage 2: the strategy is picked and its signal computed; BUY and SELL
\* go on to buyGalaByUsd and sellGalaByUsdNotional
GoStrategy(e) ==
    \E pick \in Strategies :
        LET sig == StrategySignal(pick, loc.state, loc.price)
            usd == Min(MAX_TRADE_USD, BASE_TRADE_USD)
        IN  /\ ev' = [e EXCEPT !.stages = Append(@, "strategy"), !.pick = pick,
                                !.signal = sig]
            /\ IF sig = "BUY"
               THEN /\ pc' = "buyQuote"
                    /\ loc' = [HybNoLoc EXCEPT !.usd = usd]
                    /\ outcome' = NoOutcome
               ELSE IF sig = "SELL"
               THEN /\ pc' = "sellSpot"
                    /\ loc' = [HybNoLoc EXCEPT !.usd = usd]
                    /\ outcome' = NoOutcome
               ELSE HybReturns("strategy", "none")

\* loop / setInterval: the next tick starts; state = loadState()
Hyb_tick ==
    /\ bot = "hybrid" /\ pc = "idle" /\ nTicks < MaxTicks
    /\ nTicks' = nTicks + 1
    /\ pc' = "spot"
    /\ loc' = [HybNoLoc EXCEPT !.state = disk]
    /\ outcome' = NoOutcome
    /\ ev' = [HybNoEv EXCEPT !.stages = <<"spot">>]
    /\ UNCHANGED <<bot, DRY_RUN, ARB_PATH, State, disk, chain>>

\* The variant that writes the state file although the spot quote failed.
Hyb_Spot_SavesOnFailure(price) ==
    /\ bot = "hybrid" /\ pc = "spot"
    /\ IF price = QuoteThrows
       THEN TickCaught("spot") /\ saveState(NoHybState)
       ELSE LET state == [ema |-> emaUpdate(loc.state.ema, price),
                          prices |-> pushPrice(loc.state.prices, price)]
            IN  /\ loc' = [loc EXCEPT !.state = state, !.price = price]
                /\ saveState(state)
                /\ pc' = "balances"
                /\ ev' = [ev EXCEPT !.stages = Append(@, "balances"), !.saved = <<state>>]
                /\ UNCHANGED outcome
    /\ UNCHANGED <<bot, DRY_RUN, ARB_PATH, State, chain, nTicks>>

\* tick: price = await spotUsdcPerGala(); emaUpdate, pushPrice, saveState
Hyb_Spot(price) ==
    /\ bot = "hybrid" /\ pc = "spot"
    /\ IF price = QuoteThrows
       THEN TickCaught("spot") /\ UNCHANGED disk
       ELSE LET state == [ema |-> emaUpdate(loc.state.ema, price),
                          prices |-> pushPrice(loc.state.prices, price)]
            IN  /\ loc' = [loc EXCEPT !.state = state, !.price = price]
                /\ saveState(state)
                /\ pc' = "balances"
                /\ ev' = [ev EXCEPT !.stages = Append(@, "balances"), !.saved = <<state>>]
                /\ UNCHANGED outcome
    /\ UNCHANGED <<bot, DRY_RUN, ARB_PATH, State, chain, nTicks>>

\* The variant of the evaluation without the closed-loop test.
Hyb_Balances_NoPathCheck(ok) ==
    /\ bot = "hybrid" /\ pc = "balances"
    /\ IF ~ok
       THEN TickCaught("balances")
       ELSE IF chain["GUSDC"] * 10 > ARB_START_USD * 9
       THEN /\ pc' = "simQuote"
            /\ loc' = [loc EXCEPT !.leg = 1, !.sim = <<>>]
            /\ ev' = [ev EXCEPT !.stages = Append(@, "arbEval")]
            /\ UNCHANGED outcome
       ELSE GoStrategy(ev)
    /\ UNCHANGED <<bot, DRY_RUN, ARB_PATH, State, disk, chain, nTicks>>

\* tick: balances = await getBalancesPaged(), and the arbitrage guard
Hyb_Balances(ok) ==
    /\ bot = "hybrid" /\ pc = "balances"
    /\ IF ~ok
       THEN TickCaught("balances")
       ELSE IF chain["GUSDC"] * 10 > ARB_START_USD * 9
       THEN IF ARB_PATH[1] # ARB_PATH[4]
            THEN TickCaught("arbEval")
            ELSE /\ pc' = "simQuote"
                 /\ loc' = [loc EXCEPT !.leg = 1, !.sim = <<>>]
                 /\ ev' = [ev EXCEPT !.stages = Append(@, "arbEval")]
                 /\ UNCHANGED outcome
       ELSE GoStrategy(ev)
    /\ UNCHANGED <<bot, DRY_RUN, ARB_PATH, State, disk, chain, nTicks>>

\* the amount hop leg puts in: startUsd, then the output quoted for the hop before
\* (q01.out, q12.out in simulateTriangle; sim.legs[leg - 1].in in execTriangle)
LegIn(leg) == IF leg = 1 THEN ARB_START_USD ELSE loc.sim[leg - 1]

\* what the provider answers to the quote of hop leg for amountIn: it rejects, or
\* quotes an output, which is 0 when nothing is put in
SimQuoteAnswers(leg, amountIn) ==
    {QuoteThrows, ZeroOut} \cup (IF amountIn > 0 THEN HopOuts(leg) ELSE {})

\* The variant that puts the starting amount into every leg.
TriangleLegs_FromStart(path, startUsd, outs) ==
    [i \in 1..3 |-> [in |-> startUsd, out |-> outs[i],
                     tokenIn |-> path[i], tokenOut |-> path[i + 1]]]

\* simulateTriangle: the legs of the result, from t0..t3 and q01, q12, q23
TriangleLegs(path, startUsd, outs) ==
    [i \in 1..3 |-> [in |-> IF i = 1 THEN startUsd ELSE outs[i - 1], out |-> outs[i],
                     tokenIn |-> path[i], tokenOut |-> path[i + 1]]]

\* simulateTriangle: q = await quoteExactIn(...) of hop loc.leg; after the third
\* hop the profit test, and execTriangle up to its first await
Hyb_SimQuote(out) ==
    /\ bot = "hybrid" /\ pc = "simQuote"
    /\ LET asked == [ev EXCEPT !.quotes = Append(@, [in |-> LegIn(loc.leg), out |-> out])]
           sim == [profit |-> out - ARB_START_USD, finalOut |-> out,
                   ok |-> TriangleOk(ARB_START_USD, out),
                   legs |-> TriangleLegs(ARB_PATH, ARB_START_USD, Append(loc.sim, out))]
           done == [asked EXCEPT !.sim = <<sim>>]
       IN  IF out = QuoteThrows
           THEN Caught("arbEval", asked)
           ELSE IF loc.leg < 3
           THEN /\ pc' = "simQuote"
                /\ loc' = [loc EXCEPT !.leg = @ + 1, !.sim = Append(@, out)]
                /\ ev' = asked
                /\ UNCHANGED outcome
           ELSE IF ~sim.ok
           THEN GoStrategy(done)
           ELSE IF DRY_RUN
           THEN /\ HybReturns("arb", "simulated")
                /\ ev' = [done EXCEPT !.stages = Append(@, "arbExec")]
           ELSE /\ pc' = "arbSock"
                /\ loc' = [loc EXCEPT !.leg = 1, !.sim = Append(@, out)]
                /\ ev' = [done EXCEPT !.stages = Append(@, "arbExec")]
                /\ UNCHANGED outcome
    /\ UNCHANGED <<bot, DRY_RUN, ARB_PATH, State, disk, chain, nTicks>>

\* the USDC balance after a swap of exactIn of tokenIn for out of tokenOut settled
UsdcAfter(c, tokenIn, exactIn, tokenOut, out) ==
    [c EXCEPT !["GUSDC"] = @ - (IF tokenIn = "GUSDC" THEN exactIn ELSE 0)
                             + (IF tokenOut = "GUSDC" THEN out ELSE 0)]

\* the wallet can pay exactIn of tokenIn, as far as the model follows it
CanPay(tokenIn, exactIn) == tokenIn = "GUSDC" => chain["GUSDC"] >= exactIn

\* execTriangle: await ensureSocket()
Hyb_ArbSocket(ok) ==
    /\ bot = "hybrid" /\ pc = "arbSock"
    /\ IF ok THEN pc' = "legQuote" /\ UNCHANGED <<loc, outcome, ev>>
       ELSE TickCaught("arbExec")
    /\ UNCHANGED <<bot, DRY_RUN, ARB_PATH, State, disk, chain, nTicks>>

\* execTriangle, hop loc.leg: q = await quoteExactInput(...), minOut
Hyb_LegQuote(out) ==
    /\ bot = "hybrid" /\ pc = "legQuote"
    /\ IF out = QuoteThrows
       THEN TickCaught("arbExec")
       ELSE /\ pc' = "legSwap"
            /\ loc' = [loc EXCEPT !.out = out]
            /\ ev' = [ev EXCEPT !.minOut = <<bpsMul(out, Hyb_SLIPPAGE_BPS)>>]
            /\ UNCHANGED outcome
    /\ UNCHANGED <<bot, DRY_RUN, ARB_PATH, State, disk, chain, nTicks>>

\* execTriangle, hop loc.leg: p = await gswap.swaps.swap(...)
Hyb_LegSwap(ok) ==
    /\ bot = "hybrid" /\ pc = "legSwap"
    /\ ok => CanPay(ARB_PATH[loc.leg], LegIn(loc.leg))
    /\ IF ok
       THEN /\ pc' = "legWait"
            /\ ev' = Swapped(ev)
            /\ UNCHANGED <<loc, outcome>>
       ELSE Caught("arbExec", Swapped(ev))
    /\ UNCHANGED <<bot, DRY_RUN, ARB_PATH, State, disk, chain, nTicks>>

\* execTriangle, hop loc.leg: await p.wait(); after the third hop the tick returns.
\* ok: wait() resolved; settled: the swap went through on chain.
Hyb_LegWait(ok, settled) ==
    /\ bot = "hybrid" /\ pc = "legWait"
    /\ ok => settled
    /\ chain' = IF settled
                THEN UsdcAfter(chain, ARB_PATH[loc.leg], LegIn(loc.leg),
                               ARB_PATH[loc.leg + 1], loc.out)
                ELSE chain
    /\ IF ~ok THEN TickCaught("arbExec")
       ELSE IF loc.leg < 3
       THEN /\ pc' = "legQuote"
            /\ loc' = [loc EXCEPT !.leg = @ + 1]
            /\ UNCHANGED <<outcome, ev>>
       ELSE HybReturns("arb", "confirmed") /\ UNCHANGED ev
    /\ UNCHANGED <<bot, DRY_RUN, ARB_PATH, State, disk, nTicks>>

\* buyGalaByUsd: q = await quoteExactInput(USDC, GALA, usd), minOut, DRY_RUN
Hyb_BuyQuote(out) ==
    /\ bot = "hybrid" /\ pc = "buyQuote"
    /\ IF out = QuoteThrows
       THEN TickCaught("strategy")
       ELSE /\ ev' = [ev EXCEPT !.minOut = <<bpsMul(out, Hyb_SLIPPAGE_BPS)>>]
            /\ IF DRY_RUN
               THEN HybReturns("buy", "simulated")
               ELSE pc' = "buySock" /\ loc' = [loc EXCEPT !.out = out] /\ UNCHANGED outcome
    /\ UNCHANGED <<bot, DRY_RUN, ARB_PATH, State, disk, chain, nTicks>>

\* buyGalaByUsd: await ensureSocket()
Hyb_BuySocket(ok) ==
    /\ bot = "hybrid" /\ pc = "buySock"
    /\ IF ok THEN pc' = "buySwap" /\ UNCHANGED <<loc, outcome, ev>>
       ELSE TickCaught("strategy")
    /\ UNCHANGED <<bot, DRY_RUN, ARB_PATH, State, disk, chain, nTicks>>

\* buyGalaByUsd: pending = await gswap.swaps.swap(USDC, GALA, ...)
Hyb_BuySwap(ok) ==
    /\ bot = "hybrid" /\ pc = "buySwap"
    /\ ok => CanPay("GUSDC", loc.usd)
    /\ IF ok THEN pc' = "buyWait" /\ ev' = Swapped(ev) /\ UNCHANGED <<loc, outcome>>
       ELSE Caught("strategy", Swapped(ev))
    /\ UNCHANGED <<bot, DRY_RUN, ARB_PATH, State, disk, chain, nTicks>>

\* buyGalaByUsd: await pending.wait()
Hyb_BuyWait(ok, settled) ==
    /\ bot = "hybrid" /\ pc = "buyWait"
    /\ ok => settled
    /\ chain' = IF settled THEN UsdcAfter(chain, "GUSDC", loc.usd, "GALA", loc.out)
                ELSE chain
    /\ IF ok THEN HybReturns("buy", "confirmed") /\ UNCHANGED ev
       ELSE TickCaught("strategy")
    /\ UNCHANGED <<bot, DRY_RUN, ARB_PATH, State, disk, nTicks>>

\* sellGalaByUsdNotional: price = await spotUsdcPerGala(); galaAmt = usd / price
Hyb_SellSpot(price) ==
    /\ bot = "hybrid" /\ pc = "sellSpot"
    /\ IF price = QuoteThrows
       THEN TickCaught("strategy")
       ELSE pc' = "sellQuote" /\ loc' = [loc EXCEPT !.sellPrice = price]
            /\ UNCHANGED <<outcome, ev>>
    /\ UNCHANGED <<bot, DRY_RUN, ARB_PATH, State, disk, chain, nTicks>>

\* sellGalaByUsdNotional: q = await quoteExactInput(GALA, USDC, galaAmt), minOut,
\* DRY_RUN
Hyb_SellQuote(out) ==
    /\ bot = "hybrid" /\ pc = "sellQuote"
    /\ IF out = QuoteThrows
       THEN TickCaught("strategy")
       ELSE /\ ev' = [ev EXCEPT !.minOut = <<bpsMul(out, Hyb_SLIPPAGE_BPS)>>]
            /\ IF DRY_RUN
               THEN HybReturns("sell", "simulated")
               ELSE pc' = "sellSock" /\ loc' = [loc EXCEPT !.out = out] /\ UNCHANGED outcome
    /\ UNCHANGED <<bot, DRY_RUN, ARB_PATH, State, disk, chain, nTicks>>

\* sellGalaByUsdNotional: await ensureSocket()
Hyb_SellSocket(ok) ==
    /\ bot = "hybrid" /\ pc = "sellSock"
    /\ IF ok THEN pc' = "sellSwap" /\ UNCHANGED <<loc, outcome, ev>>
       ELSE TickCaught("strategy")
    /\ UNCHANGED <<bot, DRY_RUN, ARB_PATH, State, disk, chain, nTicks>>

\* sellGalaByUsdNotional: pending = await gswap.swaps.swap(GALA, USDC, ...)
Hyb_SellSwap(ok) ==
    /\ bot = "hybrid" /\ pc = "sellSwap"
    /\ IF ok THEN pc' = "sellWait" /\ ev' = Swapped(ev) /\ UNCHANGED <<loc, outcome>>
       ELSE Caught("strategy", Swapped(ev))
    /\ UNCHANGED <<bot, DRY_RUN, ARB_PATH, State, disk, chain, nTicks>>

\* sellGalaByUsdNotional: await pending.wait()
Hyb_SellWait(ok, settled) ==
    /\ bot = "hybrid" /\ pc = "sellWait"
    /\ ok => settled
    /\ chain' = IF settled THEN UsdcAfter(chain, "GALA", 0, "GUSDC", loc.out) ELSE chain
    /\ IF ok THEN HybReturns("sell", "confirmed") /\ UNCHANGED ev
       ELSE TickCaught("strategy")
    /\ UNCHANGED <<bot, DRY_RUN, ARB_PATH, State, disk, nTicks>>

NextHybrid ==
    \/ Hyb_tick
    \/ \E price \in {QuoteThrows} \cup HybPrices : Hyb_Spot(price)
    \/ \E ok \in BOOLEAN : Hyb_Balances(ok)
    \/ bot = "hybrid" /\ pc = "simQuote"
         /\ \E out \in SimQuoteAnswers(loc.leg, LegIn(loc.leg)) : Hyb_SimQuote(out)
    \/ \E ok \in BOOLEAN : Hyb_ArbSocket(ok)
    \/ bot = "hybrid" /\ \E out \in {QuoteThrows} \cup HopOuts(loc.leg) : Hyb_LegQuote(out)
    \/ \E ok \in BOOLEAN : Hyb_LegSwap(ok)
    \/ \E ok \in BOOLEAN, settled \in BOOLEAN : Hyb_LegWait(ok, settled)
    \/ \E out \in {QuoteThrows} \cup HybBuyOuts : Hyb_BuyQuote(out)
    \/ \E ok \in BOOLEAN : Hyb_BuySocket(ok)
    \/ \E ok \in BOOLEAN : Hyb_BuySwap(ok)
    \/ \E ok \in BOOLEAN, settled \in BOOLEAN : Hyb_BuyWait(ok, settled)
    \/ \E price \in {QuoteThrows} \cup HybPrices : Hyb_SellSpot(price)
    \/ \E out \in {QuoteThrows} \cup HybSellOuts : Hyb_SellQuote(out)
    \/ \E ok \in BOOLEAN : Hyb_SellSocket(ok)
    \/ \E ok \in BOOLEAN : Hyb_SellSwap(ok)
    \/ \E ok \in BOOLEAN, settled \in BOOLEAN : Hyb_SellWait(ok, settled)

SpecHybrid == InitHybrid /\ [][NextHybrid]_vars

(***************************************************************************)
(* SpecGas: the bot with the gas reserve (src/unnamed/part_001).  main     *)
(* calls runOnce once: topUpGasIfNeeded, trySellIfProfitable('GALA'),      *)
(* trySellIfProfitable('GWETH'), buyOneDollar.  Stable amounts are counted *)
(* in units of 1e-6 USD, GALA and GWETH in whole units.  This bot never    *)
(* awaits a confirmation: a submitted swap stays pending and settles, if   *)
(* at all, before one of the later balance reads.                          *)
(***************************************************************************)
GAS_MIN_GALA == 2
GAS_FIXED_FEE_GALA == 1
Gas_topUpUsd == 20000          \* toDollars(GAS_TOPUP_USD_CENTS), with GAS_TOPUP_USD_CENTS=2
Gas_usd == 10000               \* toDollars(USD_CENTS), with BOT_USD_CENTS=1
Gas_MIN_PROFIT_BPS == 10
Gas_SLIPPAGE_BPS == 200
Gas_TopUpPollCap == 12         \* for (let i = 0; i < 12; i++)
Gas_BuyPollCap == 6            \* for (let i = 0; i < 6; i++)

GasNoLoc == [sym |-> "", qty |-> 0, out |-> 0, net |-> 0, buyKey |-> "", stable |-> "",
             before |-> [t \in Tokens |-> 0], i |-> 0]
\* Instrumentation: the calls of swap and the minOut of the running or last
\* trade action, what topUpGasIfNeeded returned (<<>> until it has), the number
\* of balance polls of the action, and the swaps submitted and not yet settled.
GasNoEv == [swaps |-> 0, minOut |-> <<>>, ret |-> <<>>, polls |-> 0, pending |-> <<>>]
GasEnterAction(e) == [e EXCEPT !.swaps = 0, !.minOut = <<>>, !.polls = 0]

\* needsGasTopUp(balances): galaBal + 1e-9 < GAS_MIN_GALA, for whole units
needsGasTopUp(balances) == balances.q["GALA"] < GAS_MIN_GALA

\* the excess of GALA above the reserve: Math.max(0, qty - GAS_MIN_GALA)
GalaExcess(qty) == Max(0, qty - GAS_MIN_GALA)

\* edgeBps = (gotBack - qty) / qty * 10000 < minBps
EdgeBelow(qty, gotBack, minBps) == (gotBack - qty) * 10000 < minBps * qty

\* a swap, and the chain after it settled
Tx(tokenIn, exactIn, tokenOut, out) ==
    [tin |-> tokenIn, ain |-> exactIn, tout |-> tokenOut, aout |-> out]
Settled(c, tx) == [c EXCEPT ![tx.tin] = @ - tx.ain, ![tx.tout] = @ + tx.aout]

\* before a balance read the oldest pending swap settles, or nothing does
GasChainMoves(settles) ==
    /\ settles => ev.pending # <<>> /\ chain[ev.pending[1].tin] >= ev.pending[1].ain
    /\ chain' = IF settles THEN Settled(chain, ev.pending[1]) ELSE chain
StillPending(e, settles) == [e EXCEPT !.pending = IF settles THEN Tail(@) ELSE @]

GasTopUpOuts == {8}
GasSellOuts == {Gas_usd}
GasFeeOuts == {NoQuote, 100, Gas_usd}
GasBackOuts(qty) == {NoQuote, qty, qty + 1}

InitGas ==
    /\ bot = "gas"
    /\ ARB_PATH = ClosedPath
    /\ DRY_RUN \in BOOLEAN
    /\ pc = "idle"
    /\ loc = GasNoLoc
    /\ State = ZeroLedger
    /\ disk = ZeroLedger
    /\ chain \in {[GALA |-> g, GWETH |-> w, GUSDT |-> t, GUSDC |-> 0] :
                     g \in {0, 1, 2, 5}, w \in {0, 2},
                     t \in {0, Gas_usd, Gas_topUpUsd + Gas_usd}}
    /\ nTicks = 0
    /\ outcome = NoOutcome
    /\ ev = GasNoEv

\* The variant in which a top-up that cannot be made ends the tick.
TopUpReturns_HaltsOnFailure(how, ret, e) ==
    /\ pc' = IF ret THEN "sellBal" ELSE "idle"
    /\ loc' = IF ret THEN [GasNoLoc EXCEPT !.sym = "GALA"] ELSE GasNoLoc
    /\ outcome' = Outcome("gas", "GALA", how)
    /\ ev' = [e EXCEPT !.ret = <<ret>>]

\* topUpGasIfNeeded returns ret: runOnce goes on with the sell of GALA
TopUpReturns(how, ret, e) ==
    /\ pc' = "sellBal"
    /\ loc' = [GasNoLoc EXCEPT !.sym = "GALA"]
    /\ outcome' = Outcome("gas", "GALA", how)
    /\ ev' = [e EXCEPT !.ret = <<ret>>]

GasSellReturns(how) ==
    /\ pc' = AfterSell(loc.sym)
    /\ loc' = [GasNoLoc EXCEPT !.sym = NextSym(loc.sym)]
    /\ outcome' = Outcome("sell", loc.sym, how)

GasBuyReturns(how, via) ==
    /\ pc' = "idle"
    /\ loc' = GasNoLoc
    /\ outcome' = OutcomeVia("buy", loc.buyKey, how, via)

\* The variant of runOnce that skips the gas-first step.
Gas_runOnce_SellsFirst ==
    /\ bot = "gas" /\ pc = "idle" /\ nTicks = 0
    /\ nTicks' = 1
    /\ pc' = "sellBal"
    /\ loc' = [GasNoLoc EXCEPT !.sym = "GALA"]
    /\ outcome' = NoOutcome
    /\ UNCHANGED <<bot, DRY_RUN, ARB_PATH, State, disk, chain, ev>>

\* main: runOnce is called once
Gas_runOnce ==
    /\ bot = "gas" /\ pc = "idle" /\ nTicks = 0
    /\ nTicks' = 1
    /\ pc' = "gasBal"
    /\ loc' = GasNoLoc
    /\ outcome' = NoOutcome
    /\ UNCHANGED <<bot, DRY_RUN, ARB_PATH, State, disk, chain, ev>>

\* topUpGasIfNeeded: before = await getBalancesMap(), the reserve, stable and
\* funds tests
Gas_TopUpBalances ==
    /\ bot = "gas" /\ pc = "gasBal"
    /\ \E before \in Flip_getBalancesMap(chain) :
         LET stable == resolveStableFromBalances(before)
         IN  IF ~needsGasTopUp(before) THEN TopUpReturns("skip", FALSE, ev)
             ELSE IF stable = "" THEN TopUpReturns("noStable", FALSE, ev)
             ELSE IF ~(before.q[stable] >= Gas_topUpUsd)
             THEN TopUpReturns("insufficient", FALSE, ev)
             ELSE /\ pc' = "gasQuote"
                  /\ loc' = [GasNoLoc EXCEPT !.stable = stable, !.before = before.q]
                  /\ UNCHANGED <<outcome, ev>>
    /\ UNCHANGED <<bot, DRY_RUN, ARB_PATH, State, disk, chain, nTicks>>

\* topUpGasIfNeeded: q = await safeQuoteExactIn(stable, GALA, usd), minOut, DRY_RUN.
\* The variant without the DRY_RUN branch goes on to the submission.
Gas_TopUpQuote_NoDryRunBranch(out) ==
    /\ bot = "gas" /\ pc = "gasQuote"
    /\ IF out = NoQuote THEN TopUpReturns("quoteFail", FALSE, ev)
       ELSE /\ pc' = "gasSwap"
            /\ loc' = [loc EXCEPT !.out = out]
            /\ ev' = WithMinOut(ev, out, Gas_SLIPPAGE_BPS)
            /\ UNCHANGED outcome
    /\ UNCHANGED <<bot, DRY_RUN, ARB_PATH, State, disk, chain, nTicks>>

Gas_TopUpQuote(out) ==
    /\ bot = "gas" /\ pc = "gasQuote"
    /\ IF out = NoQuote THEN TopUpReturns("quoteFail", FALSE, ev)
       ELSE IF DRY_RUN
       THEN TopUpReturns("simulated", TRUE, WithMinOut(ev, out, Gas_SLIPPAGE_BPS))
       ELSE /\ pc' = "gasSwap"
            /\ loc' = [loc EXCEPT !.out = out]
            /\ ev' = WithMinOut(ev, out, Gas_SLIPPAGE_BPS)
            /\ UNCHANGED outcome
    /\ UNCHANGED <<bot, DRY_RUN, ARB_PATH, State, disk, chain, nTicks>>

\* topUpGasIfNeeded: await gswap.swaps.swap(stable, GALA, ...)
Gas_TopUpSwap(ok) ==
    /\ bot = "gas" /\ pc = "gasSwap"
    /\ IF ok
       THEN /\ pc' = "gasPoll"
            /\ loc' = [loc EXCEPT !.i = 0]
            /\ ev' = [Swapped(ev) EXCEPT
                        !.pending = Append(@, Tx(loc.stable, Gas_topUpUsd, "GALA", loc.out))]
            /\ UNCHANGED outcome
       ELSE TopUpReturns("submitErr", FALSE, Swapped(ev))
    /\ UNCHANGED <<bot, DRY_RUN, ARB_PATH, State, disk, chain, nTicks>>

\* The variant whose fallback loop runs once more than the cap.
Gas_TopUpPoll_OnePollMore(settles) ==
    /\ bot = "gas" /\ pc = "gasPoll"
    /\ GasChainMoves(settles)
    /\ \E after \in Flip_getBalancesMap(chain') :
         LET e == [StillPending(ev, settles) EXCEPT !.polls = @ + 1]
         IN  IF PollMatches(loc.before[loc.stable], loc.before["GALA"],
                            after.q[loc.stable], after.q["GALA"], Gas_topUpUsd)
             THEN TopUpReturns("confirmed", TRUE, e)
             ELSE IF loc.i < Gas_TopUpPollCap
             THEN /\ pc' = "gasPoll"
                  /\ loc' = [loc EXCEPT !.i = @ + 1]
                  /\ ev' = e
                  /\ UNCHANGED outcome
             ELSE TopUpReturns("unconfirmed", TRUE, e)
    /\ UNCHANGED <<bot, DRY_RUN, ARB_PATH, State, disk, nTicks>>

\* topUpGasIfNeeded, one iteration of the loop: await sleep(5000);
\* after = await getBalancesMap(); return true on a match and after the last poll
Gas_TopUpPoll(settles) ==
    /\ bot = "gas" /\ pc = "gasPoll"
    /\ GasChainMoves(settles)
    /\ \E after \in Flip_getBalancesMap(chain') :
         LET e == [StillPending(ev, settles) EXCEPT !.polls = @ + 1]
         IN  IF PollMatches(loc.before[loc.stable], loc.before["GALA"],
                            after.q[loc.stable], after.q["GALA"], Gas_topUpUsd)
             THEN TopUpReturns("confirmed", TRUE, e)
             ELSE IF loc.i + 1 < Gas_TopUpPollCap
             THEN /\ pc' = "gasPoll"
                  /\ loc' = [loc EXCEPT !.i = @ + 1]
                  /\ ev' = e
                  /\ UNCHANGED outcome
             ELSE TopUpReturns("unconfirmed", TRUE, e)
    /\ UNCHANGED <<bot, DRY_RUN, ARB_PATH, State, disk, nTicks>>

\* trySellIfProfitable: balances = await getBalancesMap(); for GALA only the
\* excess above the reserve is sold
Gas_SellBalances(settles) ==
    /\ bot = "gas" /\ pc = "sellBal"
    /\ GasChainMoves(settles)
    /\ ev' = GasEnterAction(StillPending(ev, settles))
    /\ \E balances \in Flip_getBalancesMap(chain') :
         LET held == balances.q[loc.sym]
             qty == IF loc.sym = "GALA" THEN GalaExcess(held) ELSE held
             stable == resolveStableFromBalances(balances)
         IN  IF ~(qty > 0)
             THEN GasSellReturns("skip")
             ELSE /\ pc' = "sellQuote"
                  /\ loc' = [loc EXCEPT !.qty = qty, !.before = balances.q,
                                        !.stable = IF stable = "" THEN "GUSDT" ELSE stable]
                  /\ outcome' = NoOutcome
    /\ UNCHANGED <<bot, DRY_RUN, ARB_PATH, State, disk, nTicks>>

\* trySellIfProfitable: qSell = await safeQuoteExactIn(IN, OUT, qty)
Gas_SellQuote(out) ==
    /\ bot = "gas" /\ pc = "sellQuote"
    /\ IF out = NoQuote THEN GasSellReturns("quoteFail")
       ELSE pc' = "sellFee" /\ loc' = [loc EXCEPT !.out = out] /\ outcome' = NoOutcome
    /\ UNCHANGED <<bot, DRY_RUN, ARB_PATH, State, disk, chain, nTicks, ev>>

\* trySellIfProfitable: feeNowStable = await galaFeeInStable(OUT); netStable
Gas_SellFee(fee) ==
    /\ bot = "gas" /\ pc = "sellFee"
    /\ LET netStable == Max(0, loc.out - fee)
       IN  IF ~(netStable > 0) THEN GasSellReturns("feeExceeds")
           ELSE pc' = "sellBack" /\ loc' = [loc EXCEPT !.net = netStable]
                /\ outcome' = NoOutcome
    /\ UNCHANGED <<bot, DRY_RUN, ARB_PATH, State, disk, chain, nTicks, ev>>

\* trySellIfProfitable: qBuyBack = await safeQuoteExactIn(OUT, IN, netStable), the
\* round-trip test, minOut, DRY_RUN
Gas_SellBuyBack(gotBack) ==
    /\ bot = "gas" /\ pc = "sellBack"
    /\ IF gotBack = NoQuote
       THEN GasSellReturns("quoteFail") /\ UNCHANGED ev
       ELSE IF EdgeBelow(loc.qty, gotBack, Gas_MIN_PROFIT_BPS)
       THEN GasSellReturns("denied") /\ UNCHANGED ev
       ELSE /\ ev' = WithMinOut(ev, loc.out, Gas_SLIPPAGE_BPS)
            /\ IF DRY_RUN
               THEN GasSellReturns("simulated")
               ELSE pc' = "sellSwap" /\ UNCHANGED <<loc, outcome>>
    /\ UNCHANGED <<bot, DRY_RUN, ARB_PATH, State, disk, chain, nTicks>>

\* trySellIfProfitable: await gswap.swaps.swap(IN, OUT, ...)
Gas_SellSwap(ok) ==
    /\ bot = "gas" /\ pc = "sellSwap"
    /\ IF ok
       THEN /\ pc' = "sellCheck"
            /\ ev' = [Swapped(ev) EXCEPT
                        !.pending = Append(@, Tx(loc.sym, loc.qty, loc.stable, loc.out))]
            /\ UNCHANGED <<loc, outcome>>
       ELSE GasSellReturns("submitErr") /\ ev' = Swapped(ev)
    /\ UNCHANGED <<bot, DRY_RUN, ARB_PATH, State, disk, chain, nTicks>>

\* trySellIfProfitable: await sleep(5000); after = await getBalancesMap(); the
\* best-effort check of the balances
Gas_SellCheck(settles) ==
    /\ bot = "gas" /\ pc = "sellCheck"
    /\ GasChainMoves(settles)
    /\ ev' = [StillPending(ev, settles) EXCEPT !.polls = @ + 1]
    /\ \E after \in Flip_getBalancesMap(chain') :
         IF after.q[loc.sym] < loc.before[loc.sym]
              /\ after.q[loc.stable] > loc.before[loc.stable]
         THEN GasSellReturns("confirmed")
         ELSE GasSellReturns("unconfirmed")
    /\ UNCHANGED <<bot, DRY_RUN, ARB_PATH, State, disk, nTicks>>

\* buyOneDollar: balancesBefore = await getBalancesMap(), the stable and funds
\* tests, nextBuyTokenKey()
Gas_BuyBalances(settles) ==
    /\ bot = "gas" /\ pc = "buyBal"
    /\ GasChainMoves(settles)
    /\ ev' = GasEnterAction(StillPending(ev, settles))
    /\ \E balancesBefore \in Flip_getBalancesMap(chain'), buyKey \in Symbols :
         LET stable == resolveStableFromBalances(balancesBefore)
         IN  IF stable = "" \/ balancesBefore.q[stable] < Gas_usd
             THEN /\ pc' = "idle"
                  /\ loc' = GasNoLoc
                  /\ outcome' = Outcome("buy", "", "skip")
             ELSE /\ pc' = "buyQuote"
                  /\ loc' = [GasNoLoc EXCEPT !.buyKey = buyKey, !.stable = stable,
                                             !.before = balancesBefore.q]
                  /\ outcome' = NoOutcome
    /\ UNCHANGED <<bot, DRY_RUN, ARB_PATH, State, disk, nTicks>>

\* buyOneDollar: q = await safeQuoteExactIn(stable, OUT, usd), minOut, DRY_RUN
Gas_BuyQuote(outUnits) ==
    /\ bot = "gas" /\ pc = "buyQuote"
    /\ IF outUnits = NoQuote
       THEN GasBuyReturns("quoteFail", "") /\ UNCHANGED ev
       ELSE /\ ev' = WithMinOut(ev, outUnits, Gas_SLIPPAGE_BPS)
            /\ IF DRY_RUN
               THEN GasBuyReturns("simulated", "")
               ELSE pc' = "buySwap" /\ loc' = [loc EXCEPT !.out = outUnits]
                    /\ outcome' = NoOutcome
    /\ UNCHANGED <<bot, DRY_RUN, ARB_PATH, State, disk, chain, nTicks>>

\* buyOneDollar: await gswap.swaps.swap(stable, OUT, ...)
Gas_BuySwap(ok) ==
    /\ bot = "gas" /\ pc = "buySwap"
    /\ IF ok
       THEN /\ pc' = "buyPoll"
            /\ loc' = [loc EXCEPT !.i = 0]
            /\ ev' = [Swapped(ev) EXCEPT
                        !.pending = Append(@, Tx(loc.stable, Gas_usd, loc.buyKey, loc.out))]
            /\ UNCHANGED outcome
       ELSE GasBuyReturns("submitErr", "") /\ ev' = Swapped(ev)
    /\ UNCHANGED <<bot, DRY_RUN, ARB_PATH, State, disk, chain, nTicks>>

\* buyOneDollar, one iteration of the loop: await sleep(5000);
\* after = await getBalancesMap(); break on a match
Gas_BuyPoll(settles) ==
    /\ bot = "gas" /\ pc = "buyPoll"
    /\ GasChainMoves(settles)
    /\ ev' = [StillPending(ev, settles) EXCEPT !.polls = @ + 1]
    /\ \E after \in Flip_getBalancesMap(chain') :
         IF PollMatches(loc.before[loc.stable], loc.before[loc.buyKey],
                        after.q[loc.stable], after.q[loc.buyKey], Gas_usd)
         THEN GasBuyReturns("confirmed", "balance-poll")
         ELSE IF loc.i + 1 < Gas_BuyPollCap
         THEN pc' = "buyPoll" /\ loc' = [loc EXCEPT !.i = @ + 1] /\ outcome' = NoOutcome
         ELSE GasBuyReturns("unconfirmed", "")
    /\ UNCHANGED <<bot, DRY_RUN, ARB_PATH, State, disk, nTicks>>

NextGas ==
    \/ Gas_runOnce
    \/ Gas_TopUpBalances
    \/ \E out \in {NoQuote} \cup GasTopUpOuts : Gas_TopUpQuote(out)
    \/ \E ok \in BOOLEAN : Gas_TopUpSwap(ok)
    \/ \E settles \in BOOLEAN : Gas_TopUpPoll(settles)
    \/ \E settles \in BOOLEAN : Gas_SellBalances(settles)
    \/ \E out \in {NoQuote} \cup GasSellOuts : Gas_SellQuote(out)
    \/ \E fee \in GasFeeOuts : Gas_SellFee(fee)
    \/ bot = "gas" /\ \E gotBack \in GasBackOuts(loc.qty) : Gas_SellBuyBack(gotBack)
    \/ \E ok \in BOOLEAN : Gas_SellSwap(ok)
    \/ \E settles \in BOOLEAN : Gas_SellCheck(settles)
    \/ \E settles \in BOOLEAN : Gas_BuyBalances(settles)
    \/ \E outUnits \in {NoQuote} \cup BuyOuts : Gas_BuyQuote(outUnits)
    \/ \E ok \in BOOLEAN : Gas_BuySwap(ok)
    \/ \E settles \in BOOLEAN : Gas_BuyPoll(settles)

SpecGas == InitGas /\ [][NextGas]_vars

\* every awaited call returns: a tick that can take a step eventually takes one
SpecGasLive == SpecGas /\ WF_vars(NextGas)

(***************************************************************************)
(* Spec: any one of the four bots.                                         *)
(***************************************************************************)
Init == InitLedger \/ InitFlip \/ InitGas \/ InitHybrid
Next == NextLedger \/ NextFlip \/ NextGas \/ NextHybrid
Spec == Init /\ [][Next]_vars

\* the positions of a tick behind a DRY_RUN branch
LivePcs == {"sellSock", "sellSwap", "sellWait", "sellCheck", "buySock", "buySwap",
            "buyWait", "buyPoll", "gasSwap", "gasPoll", "arbSock", "legQuote",
            "legSwap", "legWait"}
LiveOutcomes == {"confirmed", "unconfirmed", "submitErr", "waitErr", "socketErr"}

\* with DRY_RUN set nothing is ever submitted and nothing changes on chain
C1_NothingSubmitted ==
    /\ [](DRY_RUN => ev.swaps = 0 /\ pc \notin LivePcs /\ outcome.how \notin LiveOutcomes)
    /\ [][DRY_RUN => chain' = chain]_vars

\* C1 as stated: with DRY_RUN set no tick ever submits a trade, and every buy,
\* sell, gas top-up and arbitrage path stops after quoting and computing minOut
\* and reports a simulated outcome.
C1_DryRunStopsAfterMinOut ==
    /\ C1_NothingSubmitted
    /\ [](DRY_RUN /\ outcome.how = "simulated" => ev.minOut # <<>>)

\* C1: with DRY_RUN set no tick ever submits a trade; every buy, sell and gas
\* top-up path stops after quoting and computing minOut and reports a simulated
\* outcome; the arbitrage path reports it after the three quotes of the
\* evaluation, with no minOut computed.
C1_DryRunSubmitsNothing ==
    /\ C1_NothingSubmitted
    /\ [](DRY_RUN /\ outcome.how = "simulated" =>
            IF outcome.kind = "arb"
            THEN ev.minOut = <<>> /\ ev.stages = <<"spot", "balances", "arbEval", "arbExec">>
            ELSE ev.minOut # <<>>)

\* a gas top-up was simulated
C1_Witness == DRY_RUN /\ outcome = Outcome("gas", "GALA", "simulated") /\ ev.ret = <<TRUE>>

\* C10: a stage of the hybrid tick whose awaited call rejects never keeps an
\* independent later stage from running: when the balance read or the
\* evaluation of the arbitrage fails, the tick still picks and runs a strategy.
C10_FailureKeepsLaterStages ==
    pc = "idle" /\ ev.failed \in {"balances", "arbEval"} =>
        \E k \in 1..Len(ev.stages) : ev.stages[k] = "strategy"

(***************************************************************************)
(* SpecLoop: how main starts the ticks (src/unnamed/part_009 main, the     *)
(* same in src/bot.js; the loop of src/frontend/hybrid-bot.js differs by   *)
(* one more await, the jitter sleep).                                      *)
(*   await runOnce(); setInterval(runOnce, INTERVAL_MIN * 60 * 1000)       *)
(* Time is counted in minutes.  A runOnce is followed through its awaits   *)
(* only: loc is the list of the runOnce calls that have not returned, each *)
(* with the number of awaits it still has to pass and the time at which    *)
(* the call it awaits returns.                                             *)
(***************************************************************************)
INTERVAL_MIN == 3              \* BOT_INTERVAL_MIN=3
AwaitsPerTick == 3             \* runOnce awaits at least its three balance reads
AwaitTimes == 1..MaxAwait

InitLoop ==
    /\ bot = "loop"
    /\ ARB_PATH = ClosedPath
    /\ DRY_RUN \in BOOLEAN
    /\ pc = "start"
    /\ loc = <<>>
    /\ State = ZeroLedger
    /\ disk = ZeroLedger
    /\ chain = [t \in Tokens |-> 0]
    /\ nTicks = 0
    /\ outcome = NoOutcome
    /\ ev = [now |-> 0, nextFire |-> 0]

\* a call of runOnce runs up to its first await, which takes d
RunOnceCalled(d) == loc' = Append(loc, [left |-> AwaitsPerTick, due |-> ev.now + d])

\* main: await runOnce()
Loop_main(d) ==
    /\ bot = "loop" /\ pc = "start"
    /\ pc' = "awaitFirst"
    /\ RunOnceCalled(d)
    /\ nTicks' = 1
    /\ UNCHANGED <<bot, DRY_RUN, ARB_PATH, State, disk, chain, outcome, ev>>

\* the call awaited by the k-th running runOnce returns: runOnce goes on to its
\* next await, which takes d, or returns; when the runOnce awaited by main
\* returns, main calls setInterval
Loop_AwaitReturns(k, d) ==
    /\ bot = "loop" /\ k \in 1..Len(loc) /\ loc[k].due = ev.now
    /\ IF loc[k].left > 1
       THEN /\ loc' = [loc EXCEPT ![k] = [left |-> @.left - 1, due |-> ev.now + d]]
            /\ UNCHANGED <<pc, ev>>
       ELSE /\ loc' = SubSeq(loc, 1, k - 1) \o SubSeq(loc, k + 1, Len(loc))
            /\ IF pc = "awaitFirst"
               THEN pc' = "looping" /\ ev' = [ev EXCEPT !.nextFire = ev.now + INTERVAL_MIN]
               ELSE UNCHANGED <<pc, ev>>
    /\ UNCHANGED <<bot, DRY_RUN, ARB_PATH, State, disk, chain, nTicks, outcome>>

\* the interval timer fires: runOnce is called
Loop_TimerFires(d) ==
    /\ bot = "loop" /\ pc = "looping" /\ ev.nextFire = ev.now /\ nTicks < MaxTicks
    /\ RunOnceCalled(d)
    /\ nTicks' = nTicks + 1
    /\ ev' = [ev EXCEPT !.nextFire = ev.now + INTERVAL_MIN]
    /\ UNCHANGED <<bot, DRY_RUN, ARB_PATH, pc, State, disk, chain, outcome>>

\* a minute passes: nothing is due now, and something is still to come
Loop_TimePasses ==
    /\ bot = "loop" /\ pc # "start"
    /\ \A k \in 1..Len(loc) : loc[k].due # ev.now
    /\ ~(pc = "looping" /\ ev.nextFire = ev.now /\ nTicks < MaxTicks)
    /\ loc # <<>> \/ (pc = "looping" /\ nTicks < MaxTicks)
    /\ ev' = [ev EXCEPT !.now = @ + 1]
    /\ UNCHANGED <<bot, DRY_RUN, ARB_PATH, pc, loc, State, disk, chain, nTicks, outcome>>

NextLoop ==
    \/ \E d \in AwaitTimes : Loop_main(d)
    \/ bot = "loop" /\ \E k \in 1..Len(loc), d \in AwaitTimes : Loop_AwaitReturns(k, d)
    \/ \E d \in AwaitTimes : Loop_TimerFires(d)
    \/ Loop_TimePasses

SpecLoop == InitLoop /\ [][NextLoop]_vars

\* C9: ticks never overlap: at no time are two calls of runOnce running.
C9_TicksNeverOverlap == Len(loc) <= 1


(***************************************************************************)
(* The order of the stages of a tick.                                      *)
(***************************************************************************)
GasPcs == {"gasBal", "gasQuote", "gasSwap", "gasPoll"}
SellPcs == {"sellBal", "sellQuote", "sellFee", "sellBack", "sellSock", "sellSwap",
            "sellWait", "sellCheck"}
BuyPcs == {"buyBal", "buyQuote", "buySock", "buySwap", "buyWait", "buyPoll"}
ArbEvalPcs == {"balances", "simQuote"}
ArbExecPcs == {"arbSock", "legQuote", "legSwap", "legWait"}

\* the stage a tick of bot b is in at position p (sym: the symbol of the running
\* sell attempt): 1 price history update, 2 gas reserve check, 3 and 4 the sell
\* attempts of GALA and GWETH, 5 arbitrage evaluation, 6 arbitrage execution,
\* 7 the buy of the flip bots and the directional signal with its trade
StageRank(b, p, sym) ==
    IF p = "idle" THEN 0
    ELSE IF b = "hybrid"
    THEN IF p = "spot" THEN 1
         ELSE IF p \in ArbEvalPcs THEN 5
         ELSE IF p \in ArbExecPcs THEN 6
         ELSE 7
    ELSE IF p \in GasPcs THEN 2
         ELSE IF p \in SellPcs THEN (IF sym = "GALA" THEN 3 ELSE 4)
         ELSE 7

\* the stage a tick of bot b starts with
FirstStage(b) == IF b = "hybrid" THEN 1 ELSE IF b = "gas" THEN 2 ELSE 3

TickStage == StageRank(bot, pc, IF pc \in SellPcs /\ bot # "hybrid" THEN loc.sym ELSE "")

HybBuyPcs == {"buyQuote", "buySock", "buySwap", "buyWait"}
HybSellPcs == {"sellSpot", "sellQuote", "sellSock", "sellSwap", "sellWait"}

\* how often the running or last tick entered a stage
Entered(stage) == Cardinality({k \in 1..Len(ev.stages) : ev.stages[k] = stage})

\* the tick is over
TickOver == pc = "idle" /\ nTicks > 0

SellSubmittedPcs == {"sellWait", "sellCheck"}

\* the gas bot sells only the excess: a GALA sell on its way has a positive
\* quantity of at most balance - GAS_MIN_GALA, and GalaExcess is never negative
C13_GasBotSellsOnlyExcess ==
    /\ \A b \in 0..(2 * GAS_MIN_GALA + 1) :
          /\ GalaExcess(b) >= 0
          /\ b <= GAS_MIN_GALA => GalaExcess(b) = 0
          /\ b > GAS_MIN_GALA => GalaExcess(b) = b - GAS_MIN_GALA
    /\ bot = "gas" /\ pc \in SellPcs \ {"sellBal"} /\ loc.sym = "GALA" =>
          loc.qty > 0 /\ loc.qty <= loc.before["GALA"] - GAS_MIN_GALA

\* C13: the fee-paying asset is never sold below the reserve: every submitted
\* sell of GALA has a quantity of at most balance - minReserve.  The hybrid bot
\* sells galaAmt = usd / price; it configures no reserve, taken as 0 here.
C13_SellNeverBelowReserve ==
    /\ bot = "gas" /\ pc \in SellSubmittedPcs /\ loc.sym = "GALA" =>
          loc.qty <= chain["GALA"] - GAS_MIN_GALA
    /\ bot = "hybrid" /\ pc \in SellSubmittedPcs =>
          loc.usd <= (chain["GALA"] - 0) * loc.sellPrice


(***************************************************************************)
(* The gas top-up that cannot be made.                                     *)
(***************************************************************************)
\* topUpGasIfNeeded returned for lack of a stable asset, of funds or of a quote
FailedTopUp ==
    /\ bot = "gas" /\ outcome.kind = "gas"
    /\ outcome.how \in {"noStable", "insufficient", "quoteFail"}

C15_NoPartialChain ==
    bot = "hybrid" =>
        \A k \in 1..Len(ev.quotes) :
            ev.quotes[k].out <= 0 =>
                /\ k = Len(ev.quotes)
                /\ ev.sim = <<>>
                /\ pc # "simQuote" => ev.failed = "arbEval"

\* what does hold: a rejected quote aborts the evaluation
C15_RejectedQuoteAborts ==
    bot = "hybrid" =>
        \A k \in 1..Len(ev.quotes) :
            ev.quotes[k].out = QuoteThrows =>
                k = Len(ev.quotes) /\ ev.sim = <<>> /\ ev.failed = "arbEval"


\* C16: the evaluation of a path [A, B, C, D] with A # D fails before any quote
\* is requested: whenever tick calls simulateTriangle the tick ends in its catch
\* with no quote of the evaluation asked, and no leg of that path is ever
\* submitted; the only trade such a tick can submit is the directional one.
C16_OpenPathFailsBeforeQuotes ==
    /\ [](bot = "hybrid" /\ ARB_PATH[1] # ARB_PATH[4] =>
             /\ ev.quotes = <<>> /\ ev.sim = <<>>
             /\ pc \notin {"simQuote"} \cup ArbExecPcs
             /\ Entered("arbExec") = 0
             /\ ev.swaps > 0 => Entered("strategy") = 1 /\ ev.swaps = 1)
    /\ [][/\ bot = "hybrid" /\ ARB_PATH[1] # ARB_PATH[4]
          /\ pc = "balances" /\ chain["GUSDC"] * 10 > ARB_START_USD * 9
          => /\ pc' = "idle" /\ outcome'.how = "tickErr"
             /\ ev'.failed \in {"balances", "arbEval"}]_vars

\* the evaluation of the open path was attempted and failed
C16_Witness ==
    /\ bot = "hybrid" /\ ARB_PATH = OpenPath /\ pc = "idle"
    /\ ev.failed = "arbEval" /\ ev.quotes = <<>>


Fee_Scale == 10                \* units per token
Fee_AMOUNT_IN == 1000          \* AMOUNT_IN = 100
Fee_MIN_PROFIT == 5            \* MIN_PROFIT_IN_TOKEN = 0.5
Fee_SLIPPAGE_BPS == 100        \* SLIPPAGE_BPS
FEES == <<"0.05%", "0.30%", "1.00%">>

\* minusBps(x, bps) = x * (10000 - bps) / 10000, rounded half up to 0 decimals
\* (decimalPlaces(0) with the default rounding mode): a whole number of tokens
minusBps(x, bps) ==
    ((x * (10000 - bps) + 5000 * Fee_Scale) \div (10000 * Fee_Scale)) * Fee_Scale

Fee_Q1Outs == {17, 500}
Fee_Q2Outs == {Fee_AMOUNT_IN + Fee_MIN_PROFIT, Fee_AMOUNT_IN + Fee_MIN_PROFIT + 1}

FeeNoLoc == [a |-> 0, b |-> 0, q1 |-> 0, cands |-> <<>>, leg |-> 0, feeA |-> "",
             feeB |-> "", leg1Out |-> 0, minOut1 |-> 0, q2Min |-> 0, minOut2 |-> 0]
\* Instrumentation of the running or last pass: the provider call awaited last,
\* and for every call of swap its leg and the call that was awaited before it
FeeNoEv == [last |-> "", legs |-> <<>>]

InitFee ==
    /\ bot = "fee"
    /\ ARB_PATH = ClosedPath
    /\ DRY_RUN \in BOOLEAN
    /\ pc = "idle"
    /\ loc = FeeNoLoc
    /\ State = ZeroLedger
    /\ disk = ZeroLedger
    /\ chain = [t \in Tokens |-> 0]
    /\ nTicks = 0
    /\ outcome = NoOutcome
    /\ ev = FeeNoEv

\* the pass is over (continue, the end of the try block, or its catch)
FeePassEnds(how) ==
    /\ pc' = "idle"
    /\ loc' = FeeNoLoc
    /\ outcome' = Outcome("arb", "", how)

\* cands.sort((a, b) => b.outBack - a.outBack)[0]: the first candidate with the
\* largest outBack
FeeBest(cands) ==
    LET top == CHOOSE k \in 1..Len(cands) :
                  /\ \A j \in 1..Len(cands) : cands[j].outBack <= cands[k].outBack
                  /\ \A j \in 1..(k - 1) : cands[j].outBack < cands[k].outBack
    IN  cands[top]

\* after the scan: no candidate, profit at or below MIN_PROFIT, DRY_RUN, or leg 1
FeeScanned(cands) ==
    IF cands = <<>> THEN FeePassEnds("noCands")
    ELSE LET best == FeeBest(cands)
         IN  IF ~(best.outBack - Fee_AMOUNT_IN > Fee_MIN_PROFIT) THEN FeePassEnds("none")
             ELSE IF DRY_RUN THEN FeePassEnds("simulated")
             ELSE /\ pc' = "legSwap"
                  /\ loc' = [FeeNoLoc EXCEPT !.leg = 1, !.feeA = best.feeA,
                                !.feeB = best.feeB, !.leg1Out = best.leg1Out,
                                !.minOut1 = minusBps(best.leg1Out, Fee_SLIPPAGE_BPS)]
                  /\ outcome' = NoOutcome

\* the scan goes on with fee tier a, or is over
FeeScanTier(a, cands) ==
    IF a <= Len(FEES)
    THEN /\ pc' = "q1"
         /\ loc' = [loc EXCEPT !.a = a, !.b = 0, !.q1 = 0, !.cands = cands]
         /\ outcome' = NoOutcome
    ELSE FeeScanned(cands)

\* main: the next pass of while (true) starts
Fee_loop ==
    /\ bot = "fee" /\ pc = "idle" /\ nTicks < MaxTicks
    /\ nTicks' = nTicks + 1
    /\ pc' = "q1"
    /\ loc' = [FeeNoLoc EXCEPT !.a = 1]
    /\ outcome' = NoOutcome
    /\ ev' = FeeNoEv
    /\ UNCHANGED <<bot, DRY_RUN, ARB_PATH, State, disk, chain>>

\* q1 = await quoteExactInput(TOKEN_IN, TOKEN_OUT, AMOUNT_IN, feeA)
Fee_Quote1(out) ==
    /\ bot = "fee" /\ pc = "q1"
    /\ ev' = [ev EXCEPT !.last = "q1"]
    /\ IF out = QuoteThrows THEN FeeScanTier(loc.a + 1, loc.cands)
       ELSE /\ pc' = "q2"
            /\ loc' = [loc EXCEPT !.q1 = out, !.b = IF loc.a = 1 THEN 2 ELSE 1]
            /\ outcome' = NoOutcome
    /\ UNCHANGED <<bot, DRY_RUN, ARB_PATH, State, disk, chain, nTicks>>

\* q2 = await quoteExactInput(TOKEN_OUT, TOKEN_IN, q1.outTokenAmount, feeB)
Fee_Quote2(out) ==
    /\ bot = "fee" /\ pc = "q2"
    /\ ev' = [ev EXCEPT !.last = "q2"]
    /\ LET cands == IF out = QuoteThrows THEN loc.cands
                    ELSE Append(loc.cands, [feeA |-> FEES[loc.a], feeB |-> FEES[loc.b],
                                            leg1Out |-> loc.q1, outBack |-> out])
           b == IF loc.b + 1 = loc.a THEN loc.b + 2 ELSE loc.b + 1
       IN  IF b <= Len(FEES)
           THEN pc' = "q2" /\ loc' = [loc EXCEPT !.b = b, !.cands = cands]
                /\ outcome' = NoOutcome
           ELSE FeeScanTier(loc.a + 1, cands)
    /\ UNCHANGED <<bot, DRY_RUN, ARB_PATH, State, disk, chain, nTicks>>

\* for the record, a call of swap: the leg, the call awaited before it, exactIn
\* and amountOutMinimum, and the quote they come from (its amount in and out)
FeeLegRecord(ok) ==
    [leg |-> loc.leg, after |-> ev.last, sent |-> ok, done |-> FALSE,
     exactIn |-> IF loc.leg = 1 THEN Fee_AMOUNT_IN ELSE loc.minOut1,
     minOut |-> IF loc.leg = 1 THEN loc.minOut1 ELSE loc.minOut2,
     quotedIn |-> IF loc.leg = 1 THEN Fee_AMOUNT_IN ELSE loc.minOut1,
     quotedOut |-> IF loc.leg = 1 THEN loc.leg1Out ELSE loc.q2Min]

\* leg = await gswap.swaps.swap(...): leg 1 with the minOut1 of the scan's quote,
\* leg 2 with the minOut2 of the re-quote
Fee_LegSwap(ok) ==
    /\ bot = "fee" /\ pc = "legSwap"
    /\ ev' = [ev EXCEPT !.last = "swap",
                        !.legs = Append(@, FeeLegRecord(ok))]
    /\ IF ok THEN pc' = "legWait" /\ UNCHANGED <<loc, outcome>>
       ELSE FeePassEnds("swapFailed")
    /\ UNCHANGED <<bot, DRY_RUN, ARB_PATH, State, disk, chain, nTicks>>

\* the leg is confirmed: leg 1 goes on to the re-quote, leg 2 ends the pass
FeeLegDone(last) ==
    /\ ev' = [ev EXCEPT !.last = last, !.legs[Len(ev.legs)].done = TRUE]
    /\ IF loc.leg = 1 THEN pc' = "requote" /\ UNCHANGED <<loc, outcome>>
       ELSE FeePassEnds("executed")

\* resilientWait: await pendingTx.wait()
Fee_LegWait(ok) ==
    /\ bot = "fee" /\ pc = "legWait"
    /\ IF ok THEN FeeLegDone("wait")
       ELSE pc' = "legEvent" /\ ev' = [ev EXCEPT !.last = "wait"] /\ UNCHANGED <<loc, outcome>>
    /\ UNCHANGED <<bot, DRY_RUN, ARB_PATH, State, disk, chain, nTicks>>

\* resilientWait: the socket's transaction event, PROCESSED or not, or the timer
Fee_LegEvent(processed) ==
    /\ bot = "fee" /\ pc = "legEvent"
    /\ IF processed THEN FeeLegDone("event")
       ELSE FeePassEnds("unconfirmed") /\ ev' = [ev EXCEPT !.last = "event"]
    /\ UNCHANGED <<bot, DRY_RUN, ARB_PATH, State, disk, chain, nTicks>>

\* q2Min = await quoteExactInput(TOKEN_OUT, TOKEN_IN, minOut1, best.feeB)
Fee_Requote(out) ==
    /\ bot = "fee" /\ pc = "requote"
    /\ ev' = [ev EXCEPT !.last = "requote"]
    /\ IF out = QuoteThrows THEN FeePassEnds("quoteFailed")
       ELSE /\ pc' = "legSwap"
            /\ loc' = [loc EXCEPT !.leg = 2, !.q2Min = out,
                                  !.minOut2 = minusBps(out, Fee_SLIPPAGE_BPS)]
            /\ outcome' = NoOutcome
    /\ UNCHANGED <<bot, DRY_RUN, ARB_PATH, State, disk, chain, nTicks>>

NextFee ==
    \/ Fee_loop
    \/ \E out \in {QuoteThrows} \cup Fee_Q1Outs : Fee_Quote1(out)
    \/ \E out \in {QuoteThrows} \cup Fee_Q2Outs : Fee_Quote2(out)
    \/ \E ok \in BOOLEAN : Fee_LegSwap(ok)
    \/ \E ok \in BOOLEAN : Fee_LegWait(ok)
    \/ \E processed \in BOOLEAN : Fee_LegEvent(processed)
    \/ \E out \in {QuoteThrows} \cup Fee_Q2Outs : Fee_Requote(out)

SpecFee == InitFee /\ [][NextFee]_vars

(***************************************************************************)
(* Arbitrage execution, leg by leg                                         *)
(***************************************************************************)
\* the calls of swap of the fee-tier bot come in leg order, and leg 2 is
\* submitted only after leg 1 was sent and confirmed
FeeLegsInOrder ==
    /\ Len(ev.legs) <= 2
    /\ \A k \in 1..Len(ev.legs) : ev.legs[k].leg = k
    /\ Len(ev.legs) = 2 => ev.legs[1].sent /\ ev.legs[1].done /\ ev.legs[2].after = "requote"

\* C18: every leg of an arbitrage is submitted in path order, each one
\* re-quoted immediately before its own submission (the provider call awaited
\* last before the call of swap is the quote of that leg), and leg k+1 only
\* after leg k was confirmed.
C18_EachLegRequotedBeforeSubmission ==
    bot = "fee" =>
        /\ FeeLegsInOrder
        /\ \A k \in 1..Len(ev.legs) :
              ev.legs[k].after = (IF k = 1 THEN "q1" ELSE "requote")

\* what the fee-tier bot does keep: order and confirmation between the legs
C18_FeeLegsInOrder == bot = "fee" => FeeLegsInOrder
C18_FeeLegTwoConfirmed == bot = "fee" /\ Len(ev.legs) = 2 /\ ev.legs[2].done

(***************************************************************************)
(* Termination of the confirmation phase (gas-reserve bot)                 *)
(***************************************************************************)
C19_Terminal(kind, sym) ==
    /\ outcome.kind = kind
    /\ outcome.sym = sym
    /\ outcome.how \in {"confirmed", "unconfirmed"}

\* the polls made so far stay below the caps, and a finished confirmation phase
\* made at least one poll and at most 12 (top-up), 6 (buy) or 1 (sell)
C19_PollsCapped ==
    /\ pc = "gasPoll" => outcome = NoOutcome /\ ev.polls = loc.i /\ loc.i < 12
    /\ pc = "buyPoll" => outcome = NoOutcome /\ ev.polls = loc.i /\ loc.i < 6
    /\ pc = "sellCheck" => ev.polls = 0 /\ ~C19_Terminal("sell", loc.sym)
    /\ pc = "sellBal" /\ C19_Terminal("gas", "GALA") =>
          /\ ev.polls \in 1..12
          /\ outcome.how = "unconfirmed" => ev.polls = 12
    /\ pc = "idle" /\ outcome.kind = "buy"
          /\ outcome.how \in {"confirmed", "unconfirmed"} =>
          /\ ev.polls \in 1..6
          /\ outcome.how = "unconfirmed" => ev.polls = 6
    /\ outcome.kind = "sell" /\ outcome.how \in {"confirmed", "unconfirmed"}
          /\ pc \in {"sellBal", "buyBal"} => ev.polls = 1

\* C19: every submitted trade reaches a terminal outcome, confirmed or
\* unconfirmed: when every awaited call returns, the confirmation phase of a
\* top-up ends after at most 12 polls, that of a buy after at most 6, that of
\* a sell after its one check; none stays submitted or polling.
C19_SubmittedTradeTerminates ==
    /\ []C19_PollsCapped
    /\ (pc = "gasPoll") ~> C19_Terminal("gas", "GALA")
    /\ (pc = "buyPoll") ~> (outcome.kind = "buy"
                              /\ outcome.how \in {"confirmed", "unconfirmed"})
    /\ \A s \in Symbols : (pc = "sellCheck" /\ loc.sym = s) ~> C19_Terminal("sell", s)

\* a top-up that no poll confirmed, after the twelfth poll
C19_Witness ==
    /\ bot = "gas" /\ pc = "sellBal"
    /\ outcome = Outcome("gas", "GALA", "unconfirmed")
    /\ ev.polls = 12

(***************************************************************************)
(* The balance-poll confirmation (sell/buy flip bot)                       *)
(***************************************************************************)
\* poll k of the running or last buy against the balances read before it
C20_SpentDropped(k) ==
    ev.polled[k][ev.stable] + Flip_EPS6 <= ev.before[ev.stable] - ev.usd + Flip_EPS3
C20_AcquiredRose(k) == ev.polled[k][ev.buyKey] > ev.before[ev.buyKey]
C20_ByBalancePoll ==
    outcome.kind = "buy" /\ outcome.how = "confirmed" /\ outcome.via = "balance-poll"

\* C20: a buy is reported confirmed by balance poll only when its last poll
\* shows both conditions against the balances read before the trade: the
\* stable balance lower by at least the notional (within the tolerances) and
\* the bought balance higher.  A poll that shows only one of them, or none,
\* does not confirm: it is followed by another poll or by the unconfirmed end.
C20_ConfirmsOnlyOnBothConditions ==
    bot = "flip" =>
        /\ C20_ByBalancePoll =>
              /\ ev.polled # <<>>
              /\ C20_SpentDropped(Len(ev.polled))
              /\ C20_AcquiredRose(Len(ev.polled))
        /\ \A k \in 1..Len(ev.polled) :
              ~(C20_SpentDropped(k) /\ C20_AcquiredRose(k)) =>
                 \/ k < Len(ev.polled)
                 \/ pc = "buyPoll"
                 \/ outcome.kind = "buy" /\ outcome.how = "unconfirmed"

\* confirmed by a poll that came after a poll showing the drop of the stable
\* balance alone
C20_Witness ==
    /\ bot = "flip" /\ C20_ByBalancePoll
    /\ \E k \in 1..(Len(ev.polled) - 1) : C20_SpentDropped(k) /\ ~C20_AcquiredRose(k)

(***************************************************************************)
(* The baseline of the balance polls (sell/buy flip bot)                   *)
(***************************************************************************)
FlipBuyPcs == {"buyQuote", "buySock", "buySwap", "buyWait", "buyPoll"}

\* C21 as stated: when the primary wait fails, the baseline the polls are
\* compared against is a snapshot of the balances taken at that moment, after
\* the failure and before the first poll.
C21_BaselineTakenAtWaitFailure ==
    [][bot = "flip" /\ pc = "buyWait" /\ pc' = "buyPoll" =>
          loc'.before \in {chain', NoBalances.q}]_vars

\* C21: the baseline the polls are compared against is the snapshot
\* balancesBefore read at the start of the buy, before the quote and the
\* submission; it is what the wallet held before the swap was submitted, it is
\* not read again when the primary wait fails, and it stays the same through
\* every poll.
C21_BaselineIsPreTradeSnapshot ==
    /\ [](bot = "flip" /\ pc \in {"buyQuote", "buySock", "buySwap"} =>
             loc.before = chain /\ ev.polled = <<>>)
    /\ [][bot = "flip" /\ pc \in FlipBuyPcs /\ pc' \in FlipBuyPcs =>
             loc'.before = loc.before]_vars
    /\ [][bot = "flip" /\ pc = "buyWait" /\ pc' = "buyPoll" =>
             ev'.polled = <<>> /\ ev'.before = loc.before]_vars

\* the wait failed although the buy went through: the polls start against the
\* balances of before the trade
C21_Witness ==
    /\ bot = "flip" /\ pc = "buyPoll" /\ ev.polled = <<>>
    /\ loc.before # chain

(***************************************************************************)
(* The slippage floor of a submitted trade (fee-tier bot)                  *)
(***************************************************************************)
\* C22: every submitted trade carries a slippage floor derived from the quote
\* of the same action: minOut = expectedOut * (1 - slippageBps / 10000), hence
\* minOut <= expectedOut, and exactIn equals the amount that was quoted.
C22_MinOutBelowExpected ==
    bot = "fee" =>
        \A k \in 1..Len(ev.legs) :
            /\ ev.legs[k].minOut * 10000 = ev.legs[k].quotedOut * (10000 - Fee_SLIPPAGE_BPS)
            /\ ev.legs[k].minOut <= ev.legs[k].quotedOut
            /\ ev.legs[k].exactIn = ev.legs[k].quotedIn

\* the part the fee-tier bot keeps: exactIn is the amount that was quoted
C22_FeeExactInIsQuoted ==
    bot = "fee" => \A k \in 1..Len(ev.legs) : ev.legs[k].exactIn = ev.legs[k].quotedIn
\* a leg submitted with a floor above the quoted output
C22_FloorAboveQuote ==
    bot = "fee" /\ \E k \in 1..Len(ev.legs) : ev.legs[k].minOut > ev.legs[k].quotedOut

(***************************************************************************)
(* The EMA of the hybrid bot                                               *)
(***************************************************************************)
\* the EMA of a non-empty price series as the numerator over
\* EMA_ALPHA_INV^(Len - 1): the first price, then alpha*p + (1-alpha)*previous
RECURSIVE C23_EmaNum(_)
C23_EmaNum(ps) ==
    IF Len(ps) = 1 THEN ps[1]
    ELSE ps[Len(ps)] * Pow(EMA_ALPHA_INV, Len(ps) - 2)
            + (EMA_ALPHA_INV - 1) * C23_EmaNum(SubSeq(ps, 1, Len(ps) - 1))

C23_EmaOfSeries(s) ==
    IF s.prices = <<>> THEN s.ema = NoEma
    ELSE s.ema * Pow(EMA_ALPHA_INV, Len(s.prices) - 1) = C23_EmaNum(s.prices) * EmaScale

MaxPushes == MaxTicks + 3
SeriesStarts == {0, PRICES_KEPT - 2, PRICES_KEPT - 1, PRICES_KEPT}

InitSeries ==
    /\ bot = "series"
    /\ ARB_PATH = ClosedPath
    /\ DRY_RUN = TRUE
    /\ pc = "idle"
    /\ \E n \in SeriesStarts : loc = [prices |-> [i \in 1..n |-> 100 + i], price |-> 0]
    /\ State = ZeroLedger
    /\ disk = ZeroLedger
    /\ chain = [t \in Tokens |-> 0]
    /\ nTicks = 0
    /\ outcome = NoOutcome
    /\ ev = <<>>

\* tick: pushPrice(state, price) with the spot price of the tick
Series_pushPrice(price) ==
    /\ bot = "series" /\ nTicks < MaxPushes
    /\ nTicks' = nTicks + 1
    /\ loc' = [prices |-> pushPrice(loc.prices, price), price |-> price]
    /\ UNCHANGED <<bot, DRY_RUN, ARB_PATH, pc, State, disk, chain, outcome, ev>>

NextSeries == \E price \in HybPrices : Series_pushPrice(price)

SpecSeries == InitSeries /\ [][NextSeries]_vars

\* C24: the series never holds more than max(3 * lookback, 400) points; a push
\* puts the new observation last, keeps the points that stay in their order and
\* unmodified, and evicts exactly the oldest points beyond the capacity.
C24_SeriesCappedOldestEvicted ==
    /\ [](bot = "series" => Len(loc.prices) <= 400 /\ Len(loc.prices) <= Max(3 * 96, 400))
    /\ [][bot = "series" =>
             LET old == loc.prices
                 new == loc'.prices
                 gone == Len(old) + 1 - Len(new)
             IN  /\ Len(new) = Min(Len(old) + 1, 400)
                 /\ new[Len(new)] = loc'.price
                 /\ \A i \in 1..(Len(new) - 1) : new[i] = old[i + gone]]_vars

\* a full series after a push that evicted its oldest point
C24_Witness ==
    /\ bot = "series" /\ nTicks >= 2
    /\ Len(loc.prices) = 400
    /\ loc.prices[1] = 103
    /\ loc.prices[400] = loc.price

(***************************************************************************)
(* The signals of Momentum and MeanReversion                               *)
(***************************************************************************)
\* the signal for the deviation num / den of the price from the EMA (den > 0)
\* and the threshold th / 1000: above, below, inside
C25_ByDeviation(num, den, th, above, below) ==
    IF num * 1000 > th * den THEN above
    ELSE IF num * 1000 < (0 - th) * den THEN below
    ELSE "NONE"

\* the EMA of the prices 1.000, 1.000, 1.000, 1.000, 1.006 (in thousandths)
C25_ExampleEma ==
    emaUpdate(emaUpdate(emaUpdate(emaUpdate(emaUpdate(NoEma, 1000), 1000), 1000), 1000), 1006)

FibPrices == {1000, 1381, 1382, 1618, 1619, 2000}
FibEmas == {NoEma, 1000 * EmaScale, 1500 * EmaScale, 2000 * EmaScale}
FibSeries == UNION {[1..n -> FibPrices] : n \in {3, 4}}

InitFib ==
    /\ bot = "fib"
    /\ ARB_PATH = ClosedPath
    /\ DRY_RUN = TRUE
    /\ pc = "idle"
    /\ \E ps \in FibSeries, ema \in FibEmas :
          loc = [state |-> [ema |-> ema, prices |-> ps], price |-> 0, signal |-> ""]
    /\ State = ZeroLedger
    /\ disk = ZeroLedger
    /\ chain = [t \in Tokens |-> 0]
    /\ nTicks = 0
    /\ outcome = NoOutcome
    /\ ev = <<>>

\* tick and runFibonacci: pushPrice(state, price); sig = fibonacciSignal(state, price)
Fib_runFibonacci(price) ==
    /\ bot = "fib" /\ pc = "idle"
    /\ pc' = "done"
    /\ LET state == [loc.state EXCEPT !.prices = pushPrice(@, price)]
       IN  loc' = [state |-> state, price |-> price,
                   signal |-> fibonacciSignal(state, price)]
    /\ UNCHANGED <<bot, DRY_RUN, ARB_PATH, State, disk, chain, nTicks, outcome, ev>>

NextFib == \E price \in FibPrices : Fib_runFibonacci(price)

SpecFib == InitFib /\ [][NextFib]_vars

(***************************************************************************)
(* FibonacciSwing                                                          *)
(***************************************************************************)
\* the lookback window of the state, its high and low and where each occurred
\* first
FibWindow == LET ps == loc.state.prices IN SubSeq(ps, Max(1, Len(ps) - 95), Len(ps))
FibHigh == CHOOSE v \in {FibWindow[i] : i \in 1..Len(FibWindow)} :
              \A i \in 1..Len(FibWindow) : FibWindow[i] <= v
FibLow == CHOOSE v \in {FibWindow[i] : i \in 1..Len(FibWindow)} :
             \A i \in 1..Len(FibWindow) : FibWindow[i] >= v
FibHighAt == CHOOSE i \in 1..Len(FibWindow) :
                FibWindow[i] = FibHigh /\ \A j \in 1..(i - 1) : FibWindow[j] < FibHigh
FibLowAt == CHOOSE i \in 1..Len(FibWindow) :
               FibWindow[i] = FibLow /\ \A j \in 1..(i - 1) : FibWindow[j] > FibLow
FibEma == IF loc.state.ema = NoEma THEN loc.price * EmaScale ELSE loc.state.ema

\* C26: FibonacciSwing gives NONE whenever the window holds fewer than 5
\* points and whenever its high equals its low, for every price and EMA.
C26_NoneOnShortOrFlatWindow ==
    bot = "fib" /\ pc = "done" =>
        /\ Len(FibWindow) < 5 => loc.signal = "NONE"
        /\ FibHigh = FibLow => loc.signal = "NONE"

\* five equal prices
C26_Witness ==
    /\ bot = "fib" /\ pc = "done"
    /\ Len(FibWindow) = 5 /\ FibHigh = FibLow
    /\ loc.signal = "NONE"

\* the price lies between the 61.8% and the 38.2% retracement, measured down
\* from the high (from = high) or up from the low (from = low)
FibUp == FibHighAt > FibLowAt /\ loc.price * EmaScale >= FibEma
FibDown == FibLowAt > FibHighAt /\ loc.price * EmaScale <= FibEma
FibInBandFromHigh ==
    /\ loc.price * 1000 <= FibHigh * 1000 - (FibHigh - FibLow) * 382
    /\ loc.price * 1000 >= FibHigh * 1000 - (FibHigh - FibLow) * 618
FibInBandFromLow ==
    /\ loc.price * 1000 >= FibLow * 1000 + (FibHigh - FibLow) * 382
    /\ loc.price * 1000 <= FibLow * 1000 + (FibHigh - FibLow) * 618

\* C27: FibonacciSwing gives BUY only in an uptrend (the high after the low,
\* price >= ema) with the price inside the 38.2%-61.8% band measured down from
\* the high, SELL only in a downtrend (the low after the high, price <= ema)
\* with the price inside the band measured up from the low, and NONE in every
\* other case.
C27_FibBuySellOnlyInBand ==
    bot = "fib" /\ pc = "done" /\ Len(FibWindow) >= 5 =>
        /\ loc.signal = "BUY" <=> FibUp /\ FibInBandFromHigh
        /\ loc.signal = "SELL" <=> FibDown /\ FibInBandFromLow
        /\ loc.signal \in {"BUY", "SELL", "NONE"}

\* a sell at the edge of the band in a downtrend
C27_Witness ==
    /\ bot = "fib" /\ pc = "done"
    /\ loc.signal = "SELL"
    /\ loc.price = 1382 /\ FibHigh = 2000 /\ FibLow = 1000

(***************************************************************************)
(* SpecStart: the start of the ledger bot (src/unnamed/part_009), of the   *)
(* hybrid bot (src/frontend/hybrid-bot.js) and of the fee-tier bot         *)
(* (src/src/index.ts): the settings WALLET_ADDRESS and PRIVATE_KEY are     *)
(* present or missing, the entry mode is the loop or `once`, and the       *)
(* program, once past its start, makes the provider calls of its mode.     *)
(***************************************************************************)
StartBots == {"ledger", "hybrid", "fee"}

InitStart ==
    /\ bot \in StartBots
    /\ ARB_PATH = ClosedPath
    /\ DRY_RUN \in BOOLEAN
    /\ pc = "load"
    /\ \E wallet \in BOOLEAN, key \in BOOLEAN, once \in BOOLEAN :
          /\ bot = "fee" => ~once
          /\ loc = [wallet |-> wallet, key |-> key, once |-> once]
    /\ State = ZeroLedger
    /\ disk = ZeroLedger
    /\ chain = [t \in Tokens |-> 0]
    /\ nTicks = 0
    /\ outcome = NoOutcome
    /\ ev = [calls |-> <<>>]

\* WALLET_ADDRESS is missing, or PRIVATE_KEY is while DRY_RUN is false
ConfigInvalid == ~loc.wallet \/ (~DRY_RUN /\ ~loc.key)

\* part_009, safety: process.exit(1) on either test, else the sdk and main()
Ledger_safety ==
    /\ bot = "ledger" /\ pc = "load"
    /\ pc' = IF ~loc.wallet THEN "exited"
             ELSE IF ~DRY_RUN /\ ~loc.key THEN "exited"
             ELSE "running"
    /\ UNCHANGED <<bot, DRY_RUN, ARB_PATH, loc, State, disk, chain, nTicks, outcome, ev>>

\* hybrid-bot.js, VALIDATION: the tests are made unless the mode is once
Hyb_VALIDATION ==
    /\ bot = "hybrid" /\ pc = "load"
    /\ pc' = IF ~loc.once /\ ~loc.wallet THEN "exited"
             ELSE IF ~loc.once /\ ~DRY_RUN /\ ~loc.key THEN "exited"
             ELSE "running"
    /\ UNCHANGED <<bot, DRY_RUN, ARB_PATH, loc, State, disk, chain, nTicks, outcome, ev>>

\* index.ts: no test of the settings; main() hands them to the sdk, which takes
\* them (accepts) or throws on a missing one, and connects the socket
Fee_start(accepts) ==
    /\ bot = "fee" /\ pc = "load"
    /\ ~accepts => ~loc.wallet \/ ~loc.key
    /\ pc' = IF accepts THEN "running" ELSE "fatal"
    /\ UNCHANGED <<bot, DRY_RUN, ARB_PATH, loc, State, disk, chain, nTicks, outcome, ev>>

\* the provider calls of a running program: runOnceTestAll only quotes, a
\* DRY_RUN program never swaps, the fee-tier bot reads no balances
StartCalls ==
    {"quote"}
       \cup (IF bot = "fee" \/ (loc.once /\ bot = "hybrid") THEN {} ELSE {"balances"})
       \cup (IF DRY_RUN \/ (loc.once /\ bot = "hybrid") THEN {} ELSE {"swap"})

Start_Call(kind) ==
    /\ bot \in StartBots /\ pc = "running" /\ nTicks < MaxTicks
    /\ kind \in StartCalls
    /\ nTicks' = nTicks + 1
    /\ ev' = [calls |-> Append(ev.calls, kind)]
    /\ UNCHANGED <<bot, DRY_RUN, ARB_PATH, pc, loc, State, disk, chain, outcome>>

NextStart ==
    \/ Ledger_safety
    \/ Hyb_VALIDATION
    \/ \E accepts \in BOOLEAN : Fee_start(accepts)
    \/ \E kind \in {"quote", "balances", "swap"} : Start_Call(kind)

SpecStart == InitStart /\ [][NextStart]_vars

\* C28: with an invalid configuration (no wallet identity, or no signing
\* credential while not in dry-run) the start is aborted before any tick: no
\* quote, balance query or trade submission is made, in every entry mode of
\* every bot.
C28_InvalidConfigMakesNoCall ==
    bot \in StartBots /\ ConfigInvalid => ev.calls = <<>> /\ pc \in {"load", "exited", "fatal"}

\* what holds: the ledger bot, and the hybrid bot in loop mode, exit before
\* any call
C28_ValidatedStartsAbort ==
    (bot = "ledger" \/ (bot = "hybrid" /\ ~loc.once)) /\ ConfigInvalid =>
        ev.calls = <<>> /\ pc \in {"load", "exited"}

(***************************************************************************)
(* SpecPages: one balance query of the hybrid bot (getBalancesPaged), of   *)
(* src/bot.js (getBalancesMap) and of the ledger bot (getBalancesMap of    *)
(* part_009).  The wallet holds loc.n assets; a request for a page with a  *)
(* limit is answered with the assets of that page, or rejected.            *)
(***************************************************************************)
PageBots == {"hybrid", "botjs", "ledger"}
HeldAssets == {0, 60, 100, 130, 250}
Ledger_limits == <<100, 50, 20>>

\* the number of assets on a page
PageLen(n, page, limit) ==
    IF n - (page - 1) * limit <= 0 THEN 0
    ELSE IF n - (page - 1) * limit < limit THEN n - (page - 1) * limit
    ELSE limit

InitPages ==
    /\ bot \in PageBots
    /\ ARB_PATH = ClosedPath
    /\ DRY_RUN = TRUE
    /\ pc = "page"
    /\ \E n \in HeldAssets : loc = [n |-> n, page |-> 1, li |-> 1]
    /\ State = ZeroLedger
    /\ disk = ZeroLedger
    /\ chain = [t \in Tokens |-> 0]
    /\ nTicks = 0
    /\ outcome = NoOutcome
    /\ ev = [requests |-> <<>>]

\* for the record: a request, and the length of the page it got (-1: rejected)
Requested(page, limit, ok) ==
    [requests |-> Append(ev.requests,
                         [page |-> page, limit |-> limit,
                          len |-> IF ok THEN PageLen(loc.n, page, limit) ELSE 0 - 1])]

\* hybrid-bot.js getBalancesPaged, one pass of while (true): LIMIT = 100; a
\* rejection propagates to the caller
Hyb_getBalancesPaged(ok) ==
    /\ bot = "hybrid" /\ pc = "page"
    /\ ev' = Requested(loc.page, 100, ok)
    /\ IF ~ok THEN pc' = "threw" /\ UNCHANGED loc
       ELSE IF PageLen(loc.n, loc.page, 100) < 100 THEN pc' = "done" /\ UNCHANGED loc
       ELSE pc' = "page" /\ loc' = [loc EXCEPT !.page = @ + 1]
    /\ UNCHANGED <<bot, DRY_RUN, ARB_PATH, State, disk, chain, nTicks, outcome>>

\* src/bot.js getBalancesMap: page = 1, pageSize = 200, one request; a
\* rejection gives the empty map
BotJs_getBalancesMap(ok) ==
    /\ bot = "botjs" /\ pc = "page"
    /\ ev' = Requested(1, 200, ok)
    /\ pc' = "done"
    /\ UNCHANGED <<bot, DRY_RUN, ARB_PATH, loc, State, disk, chain, nTicks, outcome>>

\* part_009 getBalancesMap, one pass of while (true) under the limit
\* limits[li]; a rejection starts over with the next limit, or gives the empty
\* map after the last
Ledger_getBalancesMap(ok) ==
    /\ bot = "ledger" /\ pc = "page"
    /\ LET limit == Ledger_limits[loc.li]
       IN  /\ ev' = Requested(loc.page, limit, ok)
           /\ IF ~ok
              THEN IF loc.li = Len(Ledger_limits) THEN pc' = "done" /\ UNCHANGED loc
                   ELSE pc' = "page" /\ loc' = [loc EXCEPT !.li = @ + 1, !.page = 1]
              ELSE IF PageLen(loc.n, loc.page, limit) < limit
              THEN pc' = "done" /\ UNCHANGED loc
              ELSE pc' = "page" /\ loc' = [loc EXCEPT !.page = @ + 1]
    /\ UNCHANGED <<bot, DRY_RUN, ARB_PATH, State, disk, chain, nTicks, outcome>>

NextPages ==
    \/ \E ok \in BOOLEAN : Hyb_getBalancesPaged(ok)
    \/ \E ok \in BOOLEAN : BotJs_getBalancesMap(ok)
    \/ \E ok \in BOOLEAN : Ledger_getBalancesMap(ok)

SpecPages == InitPages /\ [][NextPages]_vars

\* the requests of a query: every limit is at most 100; the pages of a run are
\* consecutive from page 1, each asked for after a full page; a run ends with
\* a short page or a rejection, and the query is done after a short page only
\* (or after the rejection it gives up on)
PagedUntilShort ==
    LET r == ev.requests
    IN  /\ \A k \in 1..Len(r) : r[k].limit >= 1 /\ r[k].limit <= 100
        /\ r # <<>> => r[1].page = 1
        /\ \A k \in 2..Len(r) :
              IF r[k - 1].len = r[k - 1].limit
              THEN r[k].page = r[k - 1].page + 1 /\ r[k].limit = r[k - 1].limit
              ELSE r[k - 1].len = 0 - 1 /\ r[k].page = 1
        /\ pc = "done" => r # <<>> /\ r[Len(r)].len < r[Len(r)].limit

\* C29: every balance query uses a page limit of at most 100 and fetches
\* consecutive pages until a page shorter than the limit is returned; no page
\* before the first short page is skipped and none after it is requested.
C29_PagedUntilShortPage == bot \in PageBots => PagedUntilShort

\* what holds: the hybrid bot and the ledger bot page through the assets
C29_HybridAndLedgerPage == bot \in {"hybrid", "ledger"} => PagedUntilShort
\* 250 assets read in three pages
C29_ThreePagesRead ==
    /\ bot = "ledger" /\ pc = "done"
    /\ Len(ev.requests) = 3 /\ ev.requests[3].len = 50

(***************************************************************************)
(* A failed write of the persisted state                                   *)
(***************************************************************************)
\* C30: a failed write of the persisted state is not fatal: the error is
\* swallowed, the tick goes on, the state in memory keeps the value that was
\* to be written, so that the next tick starts from it, and the next
\* state-changing operation writes again.
C30_WriteFailureKeepsStateInMemory ==
    /\ [][bot = "hybrid" /\ pc = "spot" /\ pc' = "balances" =>
             loc'.state = ev'.saved[1] /\ disk' \in {disk, ev'.saved[1]}]_vars
    /\ [][bot = "hybrid" /\ pc = "idle" /\ pc' = "spot" /\ ev.saved # <<>> =>
             loc'.state = ev.saved[1]]_vars

\* what holds in the hybrid bot: the write error is swallowed and the tick
\* goes on with the state it computed
C30_HybridTickGoesOn ==
    [][bot = "hybrid" /\ pc = "spot" /\ pc' = "balances" =>
          loc'.state = ev'.saved[1] /\ disk' \in {disk, ev'.saved[1]}]_vars

\* what holds in the ledger bot: STATE keeps every change whether or not the
\* write succeeded, the action returns as it does after a successful write, and
\* a later write stores the whole of STATE
C30_LedgerKeepsStateInMemory ==
    [][bot = "ledger" /\ State' # State => disk' \in {disk, State'}]_vars
C30_LedgerWriteFailed == bot = "ledger" /\ disk # State /\ pc = "idle" /\ nTicks >= 1

(***************************************************************************)
(* SpecPlain: the flip bot without a confirmation fallback                 *)
(* (src/unnamed/part_010).  runOnce sells GALA, sells GWETH, then buys for *)
(* the per-tick notional.  Stable amounts are counted in units of 1e-6 USD,*)
(* the smallest amount of the stable tokens, so that the 1e-9 tolerance of *)
(* the funds test (stable.amount + 1e-9 < usd) is below the resolution.    *)
(***************************************************************************)
Plain_usd == 10000           \* toDollars(USD_CENTS), with BOT_USD_CENTS=1
Plain_MIN_PROFIT_BPS == 10

PlainNoLoc == [sym |-> "", qty |-> 0, out |-> 0, buyKey |-> "", stable |-> ""]
\* Instrumentation: the wallet when the tick started, and the submissions of the
\* tick (what was spent, how much, and how much of it the wallet held).
PlainNoEv == [start |-> <<>>, swaps |-> <<>>]
PlainSwap(kind, spent, exactIn) ==
    [kind |-> kind, spent |-> spent, exactIn |-> exactIn,
     held |-> IF spent \in DOMAIN chain THEN chain[spent] ELSE 0]

\* the wallet lists a token or not; asset quantities in whole units
PlainWallets ==
    UNION {[D -> {0, 3, Plain_usd - 1, Plain_usd}] : D \in SUBSET Tokens}
PlainHeld(c, t) == IF t \in DOMAIN c THEN c[t] ELSE 0

\* getBalancesMap: the pages read until the last page or an error; every page
\* read so far is kept
Plain_getBalancesMap(c) == {[t \in D |-> c[t]] : D \in SUBSET (DOMAIN c)}

\* The variant of resolveStableFromBalances that takes GUSDC when GUSDT is
\* not listed, whatever the amounts.
Plain_resolveStable_FirstListed(b) ==
    IF "GUSDT" \in DOMAIN b THEN [sym |-> "GUSDT", amount |-> Plain_usd]
    ELSE IF "GUSDC" \in DOMAIN b THEN [sym |-> "GUSDC", amount |-> Plain_usd]
    ELSE [sym |-> "", amount |-> 0]

\* resolveStableFromBalances: GUSDT when positive, else GUSDC when positive,
\* else the one that is listed; "" stands for null
Plain_resolveStable(b) ==
    IF "GUSDT" \in DOMAIN b /\ b["GUSDT"] > 0 THEN [sym |-> "GUSDT", amount |-> b["GUSDT"]]
    ELSE IF "GUSDC" \in DOMAIN b /\ b["GUSDC"] > 0 THEN [sym |-> "GUSDC", amount |-> b["GUSDC"]]
    ELSE IF "GUSDT" \in DOMAIN b THEN [sym |-> "GUSDT", amount |-> b["GUSDT"]]
    ELSE IF "GUSDC" \in DOMAIN b THEN [sym |-> "GUSDC", amount |-> b["GUSDC"]]
    ELSE [sym |-> "", amount |-> 0]

\* proceeds quoted for a sell: below, at and above the profit filter
PlainSellOuts ==
    {Plain_usd, Plain_usd + (Plain_usd * Plain_MIN_PROFIT_BPS) \div 10000, 2 * Plain_usd}

InitPlain ==
    /\ bot = "plain"
    /\ ARB_PATH = ClosedPath
    /\ DRY_RUN \in BOOLEAN
    /\ pc = "idle"
    /\ loc = PlainNoLoc
    /\ State = ZeroLedger
    /\ disk = ZeroLedger
    /\ chain \in {c \in PlainWallets :
                     /\ \A t \in DOMAIN c \cap Symbols : c[t] \in {0, 3}
                     /\ \A t \in DOMAIN c \ Symbols : c[t] # 3
                     /\ "GWETH" \in DOMAIN c => "GALA" \in DOMAIN c}
    /\ nTicks = 0
    /\ outcome = NoOutcome
    /\ ev = PlainNoEv

PlainSellReturns(how) ==
    /\ pc' = AfterSell(loc.sym)
    /\ loc' = [PlainNoLoc EXCEPT !.sym = NextSym(loc.sym)]
    /\ outcome' = Outcome("sell", loc.sym, how)

PlainBuyReturns(how) ==
    /\ pc' = "idle"
    /\ loc' = PlainNoLoc
    /\ outcome' = Outcome("buy", loc.buyKey, how)

\* main, one-shot mode (node bot.js once): runOnce is called once
Plain_runOnce ==
    /\ bot = "plain" /\ pc = "idle" /\ nTicks = 0
    /\ nTicks' = 1
    /\ pc' = "sellBal"
    /\ loc' = [PlainNoLoc EXCEPT !.sym = "GALA"]
    /\ outcome' = NoOutcome
    /\ ev' = [start |-> chain, swaps |-> <<>>]
    /\ UNCHANGED <<bot, DRY_RUN, ARB_PATH, State, disk, chain>>

\* trySellIfProfitable: balances = await getBalancesMap(), the quantity test
Plain_SellBalances ==
    /\ bot = "plain" /\ pc = "sellBal"
    /\ \E balances \in Plain_getBalancesMap(chain) :
         LET qty == PlainHeld(balances, loc.sym)
             stable == Plain_resolveStable(balances)
         IN  IF ~(qty > 0)
             THEN PlainSellReturns("skip")
             ELSE /\ pc' = "sellQuote"
                  /\ loc' = [loc EXCEPT !.qty = qty,
                                        !.stable = IF stable.sym = "" THEN "GUSDT"
                                                   ELSE stable.sym]
                  /\ outcome' = NoOutcome
    /\ UNCHANGED <<bot, DRY_RUN, ARB_PATH, State, disk, chain, nTicks, ev>>

\* trySellIfProfitable: await safeQuoteExactIn, the profit filter, the DRY_RUN branch
Plain_SellQuote(usdcOut) ==
    /\ bot = "plain" /\ pc = "sellQuote"
    /\ IF usdcOut = NoQuote
       THEN PlainSellReturns("quoteFail")
       ELSE IF GainBelow(Plain_usd, usdcOut, Plain_MIN_PROFIT_BPS)
       THEN PlainSellReturns("denied")
       ELSE IF DRY_RUN
       THEN PlainSellReturns("simulated")
       ELSE /\ pc' = "sellSock"
            /\ loc' = [loc EXCEPT !.out = usdcOut]
            /\ outcome' = NoOutcome
    /\ UNCHANGED <<bot, DRY_RUN, ARB_PATH, State, disk, chain, nTicks, ev>>

\* trySellIfProfitable: await ensureSocket(); a throw is caught and logged
Plain_SellSocket ==
    /\ bot = "plain" /\ pc = "sellSock"
    /\ \/ pc' = "sellSwap" /\ UNCHANGED <<loc, outcome>>
       \/ PlainSellReturns("socketErr")
    /\ UNCHANGED <<bot, DRY_RUN, ARB_PATH, State, disk, chain, nTicks, ev>>

\* trySellIfProfitable: pending = await gswap.swaps.swap(IN, OUT, feeTier, {exactIn: qty, ...})
Plain_SellSwap ==
    /\ bot = "plain" /\ pc = "sellSwap"
    /\ ev' = [ev EXCEPT !.swaps = Append(@, PlainSwap("sell", loc.sym, loc.qty))]
    /\ \/ pc' = "sellWait" /\ UNCHANGED <<loc, outcome>>
       \/ PlainSellReturns("submitErr")
    /\ UNCHANGED <<bot, DRY_RUN, ARB_PATH, State, disk, chain, nTicks>>

\* trySellIfProfitable: await pending.wait().  ok: wait() resolved; settled: the
\* sell went through on chain by now.
Plain_SellWait(ok, settled) ==
    /\ bot = "plain" /\ pc = "sellWait"
    /\ ok => settled
    /\ IF settled
       THEN chain' = [t \in DOMAIN chain \cup {loc.stable} |->
                        IF t = loc.sym THEN chain[t] - loc.qty
                        ELSE IF t = loc.stable THEN PlainHeld(chain, t) + loc.out
                        ELSE chain[t]]
       ELSE UNCHANGED chain
    /\ PlainSellReturns(IF ok THEN "confirmed" ELSE "waitErr")
    /\ UNCHANGED <<bot, DRY_RUN, ARB_PATH, State, disk, nTicks, ev>>

\* buyOneDollar: the usd test, balances = await getBalancesMap(), the stable and
\* funds tests, nextBuyTokenKey()
Plain_BuyBalances ==
    /\ bot = "plain" /\ pc = "buyBal"
    /\ \E balances \in Plain_getBalancesMap(chain), buyKey \in Symbols :
         LET stable == Plain_resolveStable(balances)
         IN  IF ~(Plain_usd > 0) \/ stable.sym = "" \/ stable.amount < Plain_usd
             THEN /\ pc' = "idle"
                  /\ loc' = PlainNoLoc
                  /\ outcome' = Outcome("buy", "", "skip")
             ELSE /\ pc' = "buyQuote"
                  /\ loc' = [PlainNoLoc EXCEPT !.buyKey = buyKey, !.stable = stable.sym]
                  /\ outcome' = NoOutcome
    /\ UNCHANGED <<bot, DRY_RUN, ARB_PATH, State, disk, chain, nTicks, ev>>

\* buyOneDollar: await safeQuoteExactIn(stable, OUT, usd), and the DRY_RUN branch
Plain_BuyQuote(outUnits) ==
    /\ bot = "plain" /\ pc = "buyQuote"
    /\ IF outUnits = NoQuote
       THEN PlainBuyReturns("quoteFail")
       ELSE IF DRY_RUN
       THEN PlainBuyReturns("simulated")
       ELSE /\ pc' = "buySock"
            /\ loc' = [loc EXCEPT !.out = outUnits]
            /\ outcome' = NoOutcome
    /\ UNCHANGED <<bot, DRY_RUN, ARB_PATH, State, disk, chain, nTicks, ev>>

\* buyOneDollar: await ensureSocket(); a throw is caught and logged
Plain_BuySocket ==
    /\ bot = "plain" /\ pc = "buySock"
    /\ \/ pc' = "buySwap" /\ UNCHANGED <<loc, outcome>>
       \/ PlainBuyReturns("socketErr")
    /\ UNCHANGED <<bot, DRY_RUN, ARB_PATH, State, disk, chain, nTicks, ev>>

\* buyOneDollar: pending = await gswap.swaps.swap(IN, OUT, feeTier, {exactIn: usd, ...})
Plain_BuySwap ==
    /\ bot = "plain" /\ pc = "buySwap"
    /\ ev' = [ev EXCEPT !.swaps = Append(@, PlainSwap("buy", loc.stable, Plain_usd))]
    /\ \/ pc' = "buyWait" /\ UNCHANGED <<loc, outcome>>
       \/ PlainBuyReturns("submitErr")
    /\ UNCHANGED <<bot, DRY_RUN, ARB_PATH, State, disk, chain, nTicks>>

\* buyOneDollar: await pending.wait()
Plain_BuyWait(ok, settled) ==
    /\ bot = "plain" /\ pc = "buyWait"
    /\ ok => settled
    /\ IF settled
       THEN chain' = [t \in DOMAIN chain \cup {loc.buyKey} |->
                        IF t = loc.stable THEN chain[t] - Plain_usd
                        ELSE IF t = loc.buyKey THEN PlainHeld(chain, t) + loc.out
                        ELSE chain[t]]
       ELSE UNCHANGED chain
    /\ PlainBuyReturns(IF ok THEN "confirmed" ELSE "waitErr")
    /\ UNCHANGED <<bot, DRY_RUN, ARB_PATH, State, disk, nTicks, ev>>

NextPlain ==
    \/ Plain_runOnce
    \/ Plain_SellBalances
    \/ \E usdcOut \in {NoQuote} \cup PlainSellOuts : Plain_SellQuote(usdcOut)
    \/ Plain_SellSocket
    \/ Plain_SellSwap
    \/ \E ok \in BOOLEAN, settled \in BOOLEAN : Plain_SellWait(ok, settled)
    \/ Plain_BuyBalances
    \/ \E outUnits \in {NoQuote} \cup BuyOuts : Plain_BuyQuote(outUnits)
    \/ Plain_BuySocket
    \/ Plain_BuySwap
    \/ \E ok \in BOOLEAN, settled \in BOOLEAN : Plain_BuyWait(ok, settled)

SpecPlain == InitPlain /\ [][NextPlain]_vars

\* a submission of the kinds the tick makes, from a wallet that covers it
PlainCovered(s) ==
    \/ s.kind = "sell" /\ s.spent \in Symbols /\ s.held > 0 /\ s.exactIn = s.held
    \/ s.kind = "buy" /\ s.spent \in {"GUSDT", "GUSDC"}
                      /\ s.held >= Plain_usd /\ s.exactIn = Plain_usd

\* the wallet the tick started with has nothing to sell and nothing to buy with
PlainNothingToTrade(c) ==
    /\ \A t \in Symbols : PlainHeld(c, t) = 0
    /\ \A t \in {"GUSDT", "GUSDC"} : PlainHeld(c, t) < Plain_usd

PlainReturned ==
    {"none", "skip", "quoteFail", "denied", "simulated", "socketErr", "submitErr",
     "waitErr", "confirmed"}

C31_BuySubmitted ==
    bot = "plain" /\ Len(ev.swaps) = 3 /\ ev.swaps[3].kind = "buy"

(***************************************************************************)
(* The chain the arbitrage evaluator returns                               *)
(***************************************************************************)
\* C32: every result of simulateTriangle has exactly 3 legs that form a closed
\* loop (each leg's tokenOut is the next leg's tokenIn, the third leg's tokenOut
\* is the first leg's tokenIn), the first leg puts in startAmount and each later
\* leg puts in what was quoted for the leg before.
C32_ChainIsClosedLoopOfThree ==
    bot = "hybrid" =>
        \A k \in DOMAIN ev.sim :
            LET legs == ev.sim[k].legs
            IN  /\ Len(legs) = 3
                /\ legs[1].tokenOut = legs[2].tokenIn
                /\ legs[2].tokenOut = legs[3].tokenIn
                /\ legs[3].tokenOut = legs[1].tokenIn
                /\ legs[1].in = ARB_START_USD
                /\ legs[2].in = legs[1].out /\ legs[2].in = ev.quotes[1].out
                /\ legs[3].in = legs[2].out /\ legs[3].in = ev.quotes[2].out
                /\ legs[3].out = ev.quotes[3].out
                /\ ev.sim[k].finalOut = legs[3].out

\* the evaluator returned a chain whose amounts differ from leg to leg
C32_Witness ==
    /\ bot = "hybrid" /\ ev.sim # <<>>
    /\ ev.sim[1].legs[1].tokenIn = "GUSDC"
    /\ ev.sim[1].legs[2].in # ev.sim[1].legs[1].in
    /\ ev.sim[1].legs[3].in # ev.sim[1].legs[2].in

(***************************************************************************)
(* SpecSidecar: the transaction log of the sidecar server                  *)
(* (src/unnamed/part_008).  TX_LOG is kept in State; loc holds the         *)
(* requests being served, one per slot, which interleave at their awaits;  *)
(* nTicks counts the requests received.                                    *)
(***************************************************************************)
TX_CAP == 500                  \* if (TX_LOG.length > 500)
TXS_DEFAULT == 50              \* Number(req.query.limit) || 50
Slots == {1, 2}
FreeSlot == [pc |-> "free", limit |-> 0, q |-> 0, waited |-> FALSE]

\* the limit of the query string: absent, or a number
NoLimit == [given |-> FALSE, n |-> 0]
LimitQueries ==
    {NoLimit} \cup {[given |-> TRUE, n |-> n] : n \in {0 - 1, 0, 1, 2, TX_CAP, TX_CAP + 1}}

\* Instrumentation: entries pushed so far, and the last answer of GET /txs (the
\* limit asked for and the ids of the entries returned)
SideNoEv == [pushed |-> 0, asked |-> NoLimit, out |-> <<>>, answers |-> 0]

Reverse(s) == [i \in 1..Len(s) |-> s[Len(s) + 1 - i]]

\* The variant of pushTx that never drops an entry.
pushTx_NoCap(log, entry) == Append(log, entry)

\* pushTx: TX_LOG.push(entry); if (TX_LOG.length > 500) TX_LOG.splice(0, TX_LOG.length - 500)
pushTx(log, entry) ==
    LET l == Append(log, entry)
    IN  IF Len(l) > TX_CAP THEN SubSeq(l, Len(l) - TX_CAP + 1, Len(l)) ELSE l

\* GET /txs: limit = Math.max(1, Math.min(500, Number(req.query.limit) || 50))
TxsLimit(q) ==
    Max(1, Min(TX_CAP, IF q.given /\ q.n # 0 THEN q.n ELSE TXS_DEFAULT))

\* the entry a handler pushes
SideEntry(seeded, waited) == [id |-> ev.pushed + 1, seeded |-> seeded, waited |-> waited]

InitSidecar ==
    /\ bot = "sidecar"
    /\ ARB_PATH = ClosedPath
    /\ DRY_RUN = FALSE
    /\ pc = "serving"
    /\ loc = [r \in Slots |-> FreeSlot]
    /\ \E n \in {0, 1, TX_CAP - 1, TX_CAP} :
         /\ State = [i \in 1..n |-> [id |-> i, seeded |-> i = 1, waited |-> i > 1]]
         /\ ev = [SideNoEv EXCEPT !.pushed = n]
    /\ disk = ZeroLedger
    /\ chain = [t \in Tokens |-> 0]
    /\ nTicks = 0
    /\ outcome = NoOutcome

\* the answer of GET /txs: TX_LOG.slice(-limit).reverse()
SideAnswers(log, q, limit) ==
    [ev EXCEPT !.asked = q, !.answers = @ + 1,
               !.out = Reverse([i \in 1..Len(LastN(log, limit)) |-> LastN(log, limit)[i].id])]

\* GET /txs up to its await: the limit, the seed test, or the answer at once
Side_GetTxs(r, q, doSeed) ==
    /\ bot = "sidecar" /\ loc[r].pc = "free" /\ nTicks < MaxTicks
    /\ nTicks' = nTicks + 1
    /\ IF doSeed /\ Len(State) = 0
       THEN /\ loc' = [loc EXCEPT ![r] = [pc |-> "seed", limit |-> TxsLimit(q), q |-> q,
                                           waited |-> FALSE]]
            /\ UNCHANGED ev
       ELSE /\ ev' = SideAnswers(State, q, TxsLimit(q))
            /\ UNCHANGED loc
    /\ UNCHANGED <<bot, DRY_RUN, ARB_PATH, pc, State, disk, chain, outcome>>

\* GET /txs: after = await fetchCoreBalances(); pushTx(after, {seeded: true});
\* a failure of the seed is ignored; then the answer
Side_TxsSeed(r, ok) ==
    /\ bot = "sidecar" /\ loc[r].pc = "seed"
    /\ State' = IF ok THEN pushTx(State, SideEntry(TRUE, FALSE)) ELSE State
    /\ ev' = [SideAnswers(State', loc[r].q, loc[r].limit)
                 EXCEPT !.pushed = IF ok THEN @ + 1 ELSE @]
    /\ loc' = [loc EXCEPT ![r] = FreeSlot]
    /\ UNCHANGED <<bot, DRY_RUN, ARB_PATH, pc, disk, chain, nTicks, outcome>>

\* GET /txs/usd up to its first await: it seeds an empty log as GET /txs does
Side_GetTxsUsd(r) ==
    /\ bot = "sidecar" /\ loc[r].pc = "free" /\ nTicks < MaxTicks
    /\ nTicks' = nTicks + 1
    /\ loc' = IF Len(State) = 0 THEN [loc EXCEPT ![r] = [FreeSlot EXCEPT !.pc = "seedUsd"]]
              ELSE loc
    /\ UNCHANGED <<bot, DRY_RUN, ARB_PATH, pc, State, disk, chain, outcome, ev>>

\* GET /txs/usd: after = await fetchCoreBalances(); pushTx(after, {seeded: true})
Side_TxsUsdSeed(r, ok) ==
    /\ bot = "sidecar" /\ loc[r].pc = "seedUsd"
    /\ State' = IF ok THEN pushTx(State, SideEntry(TRUE, FALSE)) ELSE State
    /\ ev' = [ev EXCEPT !.pushed = IF ok THEN @ + 1 ELSE @]
    /\ loc' = [loc EXCEPT ![r] = FreeSlot]
    /\ UNCHANGED <<bot, DRY_RUN, ARB_PATH, pc, disk, chain, nTicks, outcome>>

\* POST /swap up to its first await; without a key or a wallet it answers 400
Side_PostSwap(r, accepted) ==
    /\ bot = "sidecar" /\ loc[r].pc = "free" /\ nTicks < MaxTicks
    /\ nTicks' = nTicks + 1
    /\ loc' = IF accepted THEN [loc EXCEPT ![r] = [FreeSlot EXCEPT !.pc = "swap"]] ELSE loc
    /\ UNCHANGED <<bot, DRY_RUN, ARB_PATH, pc, State, disk, chain, outcome, ev>>

\* POST /swap: tx = await gswap.swaps.swap(...); a throw answers 400
Side_SwapSubmit(r, ok) ==
    /\ bot = "sidecar" /\ loc[r].pc = "swap"
    /\ loc' = [loc EXCEPT ![r] = IF ok THEN [@ EXCEPT !.pc = "wait"] ELSE FreeSlot]
    /\ UNCHANGED <<bot, DRY_RUN, ARB_PATH, pc, State, disk, chain, nTicks, outcome, ev>>

\* POST /swap: done = await tx.wait(); a throw answers 400.  needsLookup: the
\* receipt carries no timestamp and findTxTimestamp is awaited
Side_SwapWait(r, ok, needsLookup) ==
    /\ bot = "sidecar" /\ loc[r].pc = "wait"
    /\ loc' = [loc EXCEPT ![r] = IF ~ok THEN FreeSlot
                                 ELSE [@ EXCEPT !.pc = IF needsLookup THEN "lookup"
                                                       ELSE "snapshot",
                                                !.waited = TRUE]]
    /\ UNCHANGED <<bot, DRY_RUN, ARB_PATH, pc, State, disk, chain, nTicks, outcome, ev>>

\* POST /swap: found = await findTxTimestamp(done.txId); a throw is ignored
Side_SwapLookup(r) ==
    /\ bot = "sidecar" /\ loc[r].pc = "lookup"
    /\ loc' = [loc EXCEPT ![r] = [@ EXCEPT !.pc = "snapshot"]]
    /\ UNCHANGED <<bot, DRY_RUN, ARB_PATH, pc, State, disk, chain, nTicks, outcome, ev>>

\* POST /swap: after = await fetchCoreBalances(); pushTx(after, {txId, hash}, txTs);
\* a failed snapshot is logged as a warning; then the answer
Side_SwapSnapshot(r, ok) ==
    /\ bot = "sidecar" /\ loc[r].pc = "snapshot"
    /\ State' = IF ok THEN pushTx(State, SideEntry(FALSE, loc[r].waited)) ELSE State
    /\ ev' = [ev EXCEPT !.pushed = IF ok THEN @ + 1 ELSE @]
    /\ loc' = [loc EXCEPT ![r] = FreeSlot]
    /\ UNCHANGED <<bot, DRY_RUN, ARB_PATH, pc, disk, chain, nTicks, outcome>>

NextSidecar ==
    \/ \E r \in Slots, q \in LimitQueries, doSeed \in BOOLEAN : Side_GetTxs(r, q, doSeed)
    \/ \E r \in Slots, ok \in BOOLEAN : Side_TxsSeed(r, ok)
    \/ \E r \in Slots : Side_GetTxsUsd(r)
    \/ \E r \in Slots, ok \in BOOLEAN : Side_TxsUsdSeed(r, ok)
    \/ \E r \in Slots, accepted \in BOOLEAN : Side_PostSwap(r, accepted)
    \/ \E r \in Slots, ok \in BOOLEAN : Side_SwapSubmit(r, ok)
    \/ \E r \in Slots, ok \in BOOLEAN, needsLookup \in BOOLEAN : Side_SwapWait(r, ok, needsLookup)
    \/ \E r \in Slots : Side_SwapLookup(r)
    \/ \E r \in Slots, ok \in BOOLEAN : Side_SwapSnapshot(r, ok)

SpecSidecar == InitSidecar /\ [][NextSidecar]_vars

\* the log holds the newest entries pushed, in the order they were pushed
TxLogIsNewestSuffix ==
    /\ Len(State) <= TX_CAP
    /\ Len(State) = Min(ev.pushed, TX_CAP)
    /\ \A i \in DOMAIN State : State[i].id = ev.pushed - Len(State) + i

\* the last answer lists entries pushed one after the other, newest first
AnswerNewestFirst ==
    \A i \in DOMAIN ev.out : i > 1 => ev.out[i] = ev.out[i - 1] - 1

\* an answer starts with the newest entry of the log
AnswerStartsAtNewest ==
    [][ev'.answers # ev.answers =>
          /\ Len(ev'.out) = Min(TxsLimit(ev'.asked), Len(State'))
          /\ ev'.out # <<>> => ev'.out[1] = ev'.pushed]_vars

\* C33 as stated: the log never holds more than 500 entries, the oldest are
\* dropped first, a swap is logged only after its wait succeeded, and GET /txs
\* returns at most min(limit, 500) entries, newest first.
C33_TxsReturnsAtMostLimit ==
    /\ [](bot = "sidecar" =>
            /\ TxLogIsNewestSuffix
            /\ \A i \in DOMAIN State : State[i].seeded \/ State[i].waited
            /\ AnswerNewestFirst
            /\ ev.asked.given => Len(ev.out) <= Min(ev.asked.n, TX_CAP))
    /\ AnswerStartsAtNewest

\* C33, with the limit the handler uses: the limit asked for when it is 1 or
\* more, 50 when it is absent or 0, 1 when it is negative, and never more than 500.
C33_TxsReturnsAtMostClampedLimit ==
    /\ [](bot = "sidecar" =>
            /\ TxLogIsNewestSuffix
            /\ \A i \in DOMAIN State : State[i].seeded \/ State[i].waited
            /\ AnswerNewestFirst
            /\ Len(ev.out) <= TxsLimit(ev.asked) /\ TxsLimit(ev.asked) <= TX_CAP
            /\ (ev.asked.given /\ ev.asked.n >= 1) =>
                   Len(ev.out) <= Min(ev.asked.n, TX_CAP))
    /\ AnswerStartsAtNewest

\* a full log took one more swap, and GET /txs?limit=501 answered with 500 entries
C33_Witness ==
    /\ bot = "sidecar" /\ ev.pushed = TX_CAP + 1 /\ Len(State) = TX_CAP
    /\ ~State[TX_CAP].seeded
    /\ ev.asked.n = TX_CAP + 1 /\ Len(ev.out) = TX_CAP /\ ev.out[1] = TX_CAP + 1

(***************************************************************************)
(* The state file and the later stages of a hybrid tick                    *)
(***************************************************************************)
\* the stages of a tick that come after the spot quote
HybLaterStage == bot = "hybrid" /\ pc \notin {"idle", "spot"}

\* C34 as stated: whenever a hybrid tick is at a balance query, an arbitrage
\* evaluation or a trade, the EMA update and the price append of the tick are in
\* the state file, and they are still there when the tick has failed at a later
\* stage; a tick whose spot quote fails leaves the file unchanged.
C34_UpdatePersistedBeforeLaterStages ==
    /\ [](HybLaterStage => disk = ev.saved[1])
    /\ [](bot = "hybrid" /\ pc = "idle" /\ ev.saved # <<>> => disk = ev.saved[1])
    /\ [][bot = "hybrid" /\ pc = "spot" /\ pc' = "idle" => disk' = disk]_vars

\* C34, with the write that may fail: saveState is called with the EMA update
\* and the price append before any balance query, arbitrage evaluation or trade,
\* and the file then holds them unless the write failed (the error is swallowed);
\* no later stage, failed or not, touches the file; a tick whose spot quote
\* fails leaves the file unchanged.
C34_UpdateSavedBeforeLaterStages ==
    /\ [](HybLaterStage => ev.saved # <<>> /\ Len(ev.saved[1].prices) >= 1)
    /\ [][bot = "hybrid" /\ pc = "spot" /\ pc' = "balances" =>
             /\ ev'.saved = <<loc'.state>>
             /\ loc'.state.prices = Append(loc.state.prices, loc'.price)
             /\ loc'.state.ema = emaUpdate(loc.state.ema, loc'.price)
             /\ disk' \in {loc'.state, disk}]_vars
    /\ [][bot = "hybrid" /\ disk' # disk => pc = "spot" /\ pc' = "balances"]_vars
    /\ [][bot = "hybrid" /\ pc = "spot" /\ pc' = "idle" => disk' = disk]_vars

\* the update of the second tick was written, and the tick failed at a later stage
C34_Witness ==
    /\ bot = "hybrid" /\ pc = "idle" /\ nTicks = 2
    /\ ev.failed \in {"balances", "arbEval", "arbExec", "strategy"}
    /\ ev.saved # <<>> /\ disk = ev.saved[1] /\ Len(disk.prices) = 2
\* the spot quote of a tick failed after an earlier tick had written its update
C34_SpotFailedAfterWrite ==
    bot = "hybrid" /\ pc = "idle" /\ ev.failed = "spot" /\ Len(disk.prices) >= 1

(***************************************************************************)
(* The frame of the ledger operations                                      *)
(***************************************************************************)
\* the symbol the running trade action is about
LedgerActionSym == IF pc \in BuyPcs THEN loc.buyKey ELSE loc.sym
SellDeniedOrFailed == {"skip", "quoteFail", "denied", "socketErr", "submitErr", "waitErr"}

\* C35: addPurchase(A, ...) and clearPosition(A) change A's units and cost and no
\* other position; every step of a trade action changes at most the position of
\* the asset it is about; a sell attempt that is denied or fails changes no
\* position at all.
C35_OtherPositionsUnchanged ==
    /\ [](bot = "ledger" =>
            \A a \in Symbols :
                /\ \A b \in Symbols \ {a} :
                       /\ addPurchase(State, a, 1, UsdPerBuy)[b] = State[b]
                       /\ clearPosition(State, a)[b] = State[b]
                /\ addPurchase(State, a, 1, UsdPerBuy)[a] =
                       [units |-> State[a].units + 1,
                        cost_usdt |-> State[a].cost_usdt + UsdPerBuy]
                /\ clearPosition(State, a)[a] = ZeroPos)
    /\ [][bot = "ledger" =>
             \A s \in Symbols : State'[s] # State[s] => s = LedgerActionSym]_vars
    /\ [][bot = "ledger" /\ pc \in SellPcs /\ outcome'.kind = "sell"
                         /\ outcome'.how \in SellDeniedOrFailed => State' = State]_vars

\* GALA was sold and cleared while the GWETH position stayed as it was
C35_Witness ==
    /\ bot = "ledger" /\ ev.cleared = <<"GALA">>
    /\ State["GALA"] = ZeroPos /\ State["GWETH"].units > 0
\* a sell of GALA was denied while both positions were held
C35_DeniedWithTwoPositions ==
    /\ bot = "ledger" /\ outcome = Outcome("sell", "GALA", "denied")
    /\ State["GALA"].units > 0 /\ State["GWETH"].units > 0

(***************************************************************************)
(* The cost basis and the buys that settled                                *)
(***************************************************************************)
\* C36: in live mode an asset's tracked cost basis equals the total notional of
\* the buys of that asset that settled on chain since its last cleared sell,
\* whether their confirmation wait succeeded or not.
C36_CostBasisCoversSettledBuys ==
    bot = "ledger" /\ ~DRY_RUN =>
        \A s \in Symbols : State[s].cost_usdt = ev.settled[s]

\* what holds: the ledger never tracks more than what settled
C36_CostBasisNeverAboveSettled ==
    bot = "ledger" /\ ~DRY_RUN =>
        \A s \in Symbols : State[s].cost_usdt <= ev.settled[s]
\* a buy settled although its wait failed
C36_SettledBuyUnrecorded ==
    /\ bot = "ledger" /\ ~DRY_RUN /\ outcome.kind = "buy" /\ outcome.how = "waitErr"
    /\ \E s \in Symbols : ev.settled[s] = UsdPerBuy /\ State[s] = ZeroPos /\ chain[s] > 0

(***************************************************************************)
(* SpecSignals: Momentum and MeanReversion on the same price and EMA       *)
(* (src/frontend/hybrid-bot.js, runMomentum and runMeanRevert).  The EMA   *)
(* is any value the history may have left, or none; the price lies within  *)
(* one percent of it, around the two thresholds.                           *)
(***************************************************************************)
SigBases == {500, 1000, 2000}
SigDeviations == {0 - 10, 0 - 7, 0 - 6, 0 - 5, 0 - 4, 0 - 3, 0, 3, 4, 5, 6, 7, 10}
SigPrices == {(b * (1000 + d)) \div 1000 : b \in SigBases, d \in SigDeviations}
SigEmas == {NoEma} \cup {b * EmaScale : b \in SigBases}

InitSignals ==
    /\ bot = "signals"
    /\ ARB_PATH = ClosedPath
    /\ DRY_RUN = TRUE
    /\ pc = "idle"
    /\ \E ema \in SigEmas :
          loc = [state |-> [ema |-> ema, prices |-> <<>>], price |-> 0,
                 momentum |-> "", meanRevert |-> ""]
    /\ State = ZeroLedger
    /\ disk = ZeroLedger
    /\ chain = [t \in Tokens |-> 0]
    /\ nTicks = 0
    /\ outcome = NoOutcome
    /\ ev = <<>>

\* runMomentum and runMeanRevert on one price: momentumSignal(price, state.ema ?? price),
\* meanRevertSignal(price, state.ema ?? price)
Sig_runBoth(price) ==
    /\ bot = "signals" /\ pc = "idle"
    /\ pc' = "done"
    /\ LET ema == IF loc.state.ema = NoEma THEN price * EmaScale ELSE loc.state.ema
       IN  loc' = [loc EXCEPT !.price = price,
                              !.momentum = momentumSignal(price, ema),
                              !.meanRevert = meanRevertSignal(price, ema)]
    /\ UNCHANGED <<bot, DRY_RUN, ARB_PATH, State, disk, chain, nTicks, outcome, ev>>

NextSignals == \E price \in SigPrices : Sig_runBoth(price)

SpecSignals == InitSignals /\ [][NextSignals]_vars

\* C37: on the same price and EMA, Momentum and MeanReversion never recommend
\* the same trade: MeanReversion Sell excludes Momentum Sell, MeanReversion Buy
\* excludes Momentum Buy.
C37_SignalsNeverAgreeOnTrade ==
    bot = "signals" /\ pc = "done" =>
        /\ loc.momentum \in {"BUY", "SELL", "NONE"}
        /\ loc.meanRevert \in {"BUY", "SELL", "NONE"}
        /\ loc.meanRevert = "SELL" => loc.momentum # "SELL"
        /\ loc.meanRevert = "BUY" => loc.momentum # "BUY"
        /\ loc.momentum # "NONE" => loc.momentum # loc.meanRevert

\* both signals fire on one price, against each other
C37_Witness ==
    /\ bot = "signals" /\ pc = "done"
    /\ loc.meanRevert = "SELL" /\ loc.momentum = "BUY"
C37_OnlyMomentumFires ==
    bot = "signals" /\ pc = "done" /\ loc.meanRevert = "NONE" /\ loc.momentum = "SELL"

(***************************************************************************)
(* The balance guard of the arbitrage                                      *)
(***************************************************************************)
\* C38: the hybrid tick goes into the arbitrage evaluation only when the balance
\* of the starting asset covers startAmount, the amount the first leg spends;
\* with a smaller balance it asks no arbitrage quote, submits nothing and goes on
\* to the directional signal.
C38_ArbOnlyWhenBalanceCoversStart ==
    /\ [][bot = "hybrid" /\ pc = "balances" /\ pc' = "simQuote" =>
             chain["GUSDC"] >= ARB_START_USD]_vars
    /\ [][bot = "hybrid" /\ pc = "balances" /\ chain["GUSDC"] < ARB_START_USD
                         /\ outcome'.how # "tickErr" =>
             pc' # "simQuote" /\ ev'.quotes = <<>>
                              /\ ev'.stages[Len(ev'.stages)] = "strategy"]_vars

\* what holds: at nine tenths of startAmount or less the arbitrage is skipped and
\* the tick goes on to the directional signal
C38_ArbSkippedAtNineTenths ==
    /\ [][bot = "hybrid" /\ pc = "balances" /\ pc' = "simQuote" =>
             chain["GUSDC"] * 10 > ARB_START_USD * 9]_vars
    /\ [][bot = "hybrid" /\ pc = "balances" /\ chain["GUSDC"] * 10 <= ARB_START_USD * 9
                         /\ outcome'.how # "tickErr" =>
             pc' # "simQuote" /\ ev'.quotes = <<>> /\ ev'.stages[Len(ev'.stages)] = "strategy"]_vars
\* the first leg is about to be submitted for more than the wallet holds
C38_FirstLegUnfunded ==
    /\ bot = "hybrid" /\ pc = "legSwap" /\ loc.leg = 1
    /\ chain["GUSDC"] < ARB_START_USD

(***************************************************************************)
(* SpecWait: resilientWait of the fee-tier bot (src/src/index.ts), one     *)
(* call.  pc is the position of the call; loc holds the listener and the   *)
(* timer of the fallback; the socket emits 'transaction' events at any     *)
(* time after wait() was called, one at most for the awaited transaction;  *)
(* nTicks counts the events emitted.                                       *)
(***************************************************************************)
WaitNoLoc == [listener |-> FALSE, timer |-> "none"]
\* Instrumentation: the events emitted since wait() failed (own: for the awaited
\* txId; processed: status PROCESSED; heard: onTx was registered), the number of
\* times the promise was resolved or rejected, and how the call ended.
WaitNoEv == [seen |-> <<>>, settles |-> 0, how |-> ""]

InitWait ==
    /\ bot = "wait"
    /\ ARB_PATH = ClosedPath
    /\ DRY_RUN = FALSE
    /\ pc = "wait"
    /\ loc = WaitNoLoc
    /\ State = ZeroLedger
    /\ disk = ZeroLedger
    /\ chain = [t \in Tokens |-> 0]
    /\ nTicks = 0
    /\ outcome = NoOutcome
    /\ ev = WaitNoEv

\* the event for the awaited transaction has been emitted
OwnEmitted == \E i \in DOMAIN ev.seen : ev.seen[i].own

\* return await pendingTx.wait(); a throw goes to the catch
RW_Wait(ok) ==
    /\ bot = "wait" /\ pc = "wait"
    /\ IF ok
       THEN pc' = "resolved" /\ ev' = [ev EXCEPT !.settles = @ + 1, !.how = "wait"]
       ELSE pc' = "connect" /\ UNCHANGED ev
    /\ UNCHANGED <<bot, DRY_RUN, ARB_PATH, loc, State, disk, chain, nTicks, outcome>>

\* catch: await GSwap.events.connectEventSocket(); then the promise is built:
\* setTimeout(..., timeoutMs) and socket.on('transaction', onTx).  A throw of
\* connectEventSocket rejects the call.
RW_Connect(ok) ==
    /\ bot = "wait" /\ pc = "connect"
    /\ IF ok
       THEN /\ pc' = "listening"
            /\ loc' = [listener |-> TRUE, timer |-> "armed"]
            /\ UNCHANGED ev
       ELSE /\ pc' = "rejected"
            /\ ev' = [ev EXCEPT !.settles = @ + 1, !.how = "connect"]
            /\ UNCHANGED loc
    /\ UNCHANGED <<bot, DRY_RUN, ARB_PATH, State, disk, chain, nTicks, outcome>>

\* the socket emits 'transaction' (id, resp).  With onTx registered: events for
\* another id are ignored; for txId the listener is removed, the timer cleared,
\* and the promise resolved on PROCESSED, rejected otherwise.
RW_Event(own, processed) ==
    /\ bot = "wait" /\ pc # "wait" /\ nTicks < MaxTicks
    /\ own => ~OwnEmitted
    /\ nTicks' = nTicks + 1
    /\ LET seen == Append(ev.seen, [own |-> own, processed |-> processed,
                                    heard |-> loc.listener])
       IN  IF loc.listener /\ own
           THEN /\ loc' = [listener |-> FALSE, timer |-> "cleared"]
                /\ pc' = IF processed THEN "resolved" ELSE "rejected"
                /\ ev' = [seen |-> seen, settles |-> ev.settles + 1,
                          how |-> IF processed THEN "processed" ELSE "failed"]
           ELSE /\ ev' = [ev EXCEPT !.seen = seen]
                /\ UNCHANGED <<pc, loc>>
    /\ UNCHANGED <<bot, DRY_RUN, ARB_PATH, State, disk, chain, outcome>>

\* the timer fires: socket.off('transaction', onTx); reject('socket wait timeout')
RW_Timeout ==
    /\ bot = "wait" /\ loc.timer = "armed"
    /\ loc' = [listener |-> FALSE, timer |-> "fired"]
    /\ pc' = "rejected"
    /\ ev' = [ev EXCEPT !.settles = @ + 1, !.how = "timeout"]
    /\ UNCHANGED <<bot, DRY_RUN, ARB_PATH, State, disk, chain, nTicks, outcome>>

NextWait ==
    \/ \E ok \in BOOLEAN : RW_Wait(ok)
    \/ \E ok \in BOOLEAN : RW_Connect(ok)
    \/ \E own \in BOOLEAN, processed \in BOOLEAN : RW_Event(own, processed)
    \/ RW_Timeout

SpecWait == InitWait /\ [][NextWait]_vars

\* resilientWait settles once at most; it resolves on wait() or on a heard
\* PROCESSED event for txId, rejects on a heard event for txId with another
\* status, on the timeout or on a failed connect; events for other ids change
\* nothing; once settled, no listener is registered and no timer is pending.
WaitSettlesOnce ==
    /\ [](bot = "wait" =>
            /\ ev.settles <= 1
            /\ ev.settles = 1 <=> pc \in {"resolved", "rejected"}
            /\ pc = "resolved" =>
                  \/ ev.how = "wait"
                  \/ /\ ev.how = "processed"
                     /\ \E i \in DOMAIN ev.seen :
                           ev.seen[i].own /\ ev.seen[i].processed /\ ev.seen[i].heard
            /\ pc = "rejected" =>
                  \/ ev.how \in {"timeout", "connect"}
                  \/ /\ ev.how = "failed"
                     /\ \E i \in DOMAIN ev.seen :
                           ev.seen[i].own /\ ~ev.seen[i].processed /\ ev.seen[i].heard
            /\ pc \in {"resolved", "rejected"} => ~loc.listener /\ loc.timer # "armed")
    /\ [][bot = "wait" /\ nTicks' # nTicks /\ ~ev'.seen[Len(ev'.seen)].own =>
             pc' = pc /\ loc' = loc /\ ev'.settles = ev.settles]_vars

\* C39: resilientWait settles once, resolves only on a PROCESSED event for its
\* txId, rejects on another status or on the timeout, ignores other ids, leaves
\* no listener and no pending timer; and a PROCESSED event for its txId that is
\* emitted after wait() failed, while the call is not settled, is never missed:
\* the call resolves on it.
C39_ProcessedEventNeverMissed ==
    /\ WaitSettlesOnce
    /\ [][bot = "wait" /\ nTicks' # nTicks /\ pc \notin {"resolved", "rejected"}
            /\ ev'.seen[Len(ev'.seen)].own /\ ev'.seen[Len(ev'.seen)].processed
             => pc' = "resolved"]_vars

\* a PROCESSED event for txId came while connectEventSocket was awaited, and
\* the call was rejected by the timeout
C39_MissedDuringConnect ==
    /\ bot = "wait" /\ pc = "rejected" /\ ev.how = "timeout"
    /\ \E i \in DOMAIN ev.seen : ev.seen[i].own /\ ev.seen[i].processed /\ ~ev.seen[i].heard
\* a PROCESSED event for txId was heard after an event for another id
C39_ResolvedAfterOtherId ==
    /\ bot = "wait" /\ pc = "resolved" /\ ev.how = "processed" /\ Len(ev.seen) >= 2
    /\ ~ev.seen[1].own /\ ev.seen[1].heard
=============================================================================
